---- MODULE Spec2Model ----
(***************************************************************************)
(* Fetch governance and caching engine of poe-flip-tool:                   *)
(*   backend/rate_limiter.py  RateLimiter (the Rate Governor)              *)
(*   backend/trade_logic.py   TradeCache, _post_exchange,                  *)
(*                            fetch_listings_with_cache,                   *)
(*                            fetch_listings_force                         *)
(*                                                                         *)
(* Time is counted in ticks of 1/20 s, the resolution of the soft throttle *)
(* (soft_sleep_factor 0.05 s per reset second), so every duration the code *)
(* computes is a whole number of ticks.  Header values are strings,        *)
(* modelled as sequences of one-character strings.                         *)
(***************************************************************************)
EXTENDS Integers, Sequences, FiniteSets, TLC

(***************************************************************************)
(* Bounds of the model.                                                    *)
(***************************************************************************)
MaxTime == 60
Quantum == 20
HistQuantum == 600
HistMaxTime == 4800
MaxSnapshots == 3
MaxHistory == 33
SeqMaxTime == 80
RouteMaxTime == 20

(***************************************************************************)
(* Program constants, in ticks where they are durations.                   *)
(***************************************************************************)
TicksPerSecond == 20
SoftRatioNum == 8
SoftRatioDen == 10
SoftFactorNum == 5
SoftFactorDen == 100
SoftMinTicks == 4
SoftMaxTicks == 60
SleepCapTicks == 40
BackoffTicks == 16
Retries == 2
CacheTopN == 20
TTLTicks == 40
RetentionTicks == 2400
WindowTicks == RetentionTicks
DedupTicks == 1200
DedupEpsilon2 == 2
SPARKLINE_POINTS == 30
TrendFraction == 8
TrendPercent == 2

Threads == {1, 2}
Pairs == {"a_b"}

Max(a, b) == IF a >= b THEN a ELSE b
Min(a, b) == IF a <= b THEN a ELSE b

(***************************************************************************)
(* Strings: str.strip, str.split, int().                                   *)
(***************************************************************************)
DigitVal == [c \in {"0", "1", "2", "3", "4", "5", "6", "7", "8", "9"} |->
               CASE c = "0" -> 0 [] c = "1" -> 1 [] c = "2" -> 2 [] c = "3" -> 3
                 [] c = "4" -> 4 [] c = "5" -> 5 [] c = "6" -> 6 [] c = "7" -> 7
                 [] c = "8" -> 8 [] c = "9" -> 9]

RECURSIVE LStrip(_)
LStrip(s) == IF s # <<>> /\ Head(s) = " " THEN LStrip(Tail(s)) ELSE s

RECURSIVE RStrip(_)
RStrip(s) == IF s # <<>> /\ s[Len(s)] = " " THEN RStrip(SubSeq(s, 1, Len(s) - 1)) ELSE s

Strip(s) == RStrip(LStrip(s))

\* str.split(sep): the pieces between the separators, at least one piece.
RECURSIVE SplitFrom(_, _, _)
SplitFrom(s, sep, cur) ==
    IF s = <<>> THEN <<cur>>
    ELSE IF Head(s) = sep THEN <<cur>> \o SplitFrom(Tail(s), sep, <<>>)
    ELSE SplitFrom(Tail(s), sep, Append(cur, Head(s)))

Split(s, sep) == SplitFrom(s, sep, <<>>)

RECURSIVE DigitsValue(_, _)
DigitsValue(s, acc) ==
    IF s = <<>> THEN acc ELSE DigitsValue(Tail(s), acc * 10 + DigitVal[Head(s)])

AllDigits(s) == s # <<>> /\ \A i \in 1..Len(s) : s[i] \in DOMAIN DigitVal

\* int(text): surrounding blanks stripped, an optional sign, then digits;
\* anything else raises ValueError (ok = FALSE here).
ParseInt(text) ==
    LET s == Strip(text)
        signed == s # <<>> /\ Head(s) \in {"+", "-"}
        body == IF signed THEN Tail(s) ELSE s
    IN  IF ~AllDigits(body) THEN [ok |-> FALSE, val |-> 0]
        ELSE IF signed /\ Head(s) = "-" THEN [ok |-> TRUE, val |-> 0 - DigitsValue(body, 0)]
        ELSE [ok |-> TRUE, val |-> DigitsValue(body, 0)]

(***************************************************************************)
(* Timestamps in the durable store: datetime.isoformat writes them as      *)
(* text, SQLite compares and orders them as text, datetime.fromisoformat   *)
(* reads them back.                                                        *)
(***************************************************************************)
DigitChars == <<"0", "1", "2", "3", "4", "5", "6", "7", "8", "9">>

\* n written in exactly w decimal digits.
RECURSIVE FixedDigits(_, _)
FixedDigits(n, w) ==
    IF w = 0 THEN <<>> ELSE Append(FixedDigits(n \div 10, w - 1), DigitChars[(n % 10) + 1])

\* datetime.isoformat(): the whole seconds in a fixed-width field, then the
\* fraction of a second, which is left out when it is zero.
isoformat(t) ==
    FixedDigits(t \div TicksPerSecond, 4)
        \o (IF t % TicksPerSecond = 0 THEN <<>>
            ELSE <<".">> \o FixedDigits(((t % TicksPerSecond) * 100) \div TicksPerSecond, 2))

\* datetime.fromisoformat(text)
fromisoformat(text) ==
    DigitsValue(SubSeq(text, 1, 4), 0) * TicksPerSecond
        + (IF Len(text) > 4
           THEN (DigitsValue(SubSeq(text, 6, Len(text)), 0) * TicksPerSecond) \div 100
           ELSE 0)

CharCode == [c \in {".", "0", "1", "2", "3", "4", "5", "6", "7", "8", "9"} |->
                IF c = "." THEN 46 ELSE 48 + DigitVal[c]]

\* SQLite's comparison of two TEXT values (BINARY collation): byte by byte,
\* a proper prefix first.
RECURSIVE TextLess(_, _)
TextLess(a, b) ==
    IF b = <<>> THEN FALSE
    ELSE IF a = <<>> THEN TRUE
    ELSE IF Head(a) = Head(b) THEN TextLess(Tail(a), Tail(b))
    ELSE CharCode[Head(a)] < CharCode[Head(b)]


(***************************************************************************)
(* Rate Governor: pure part of RateLimiter.on_response.                    *)
(* A response's headers are a record: retry_after (the Retry-After text,   *)
(* <<>> when absent), rules (the items of X-Rate-Limit-Rules, each already *)
(* stripped, "" for an empty item) and state (rule name -> the text of     *)
(* X-Rate-Limit-<rule>-State).                                             *)
(***************************************************************************)
RuleState(name, current, limit, reset_s) ==
    [name |-> name, current |-> current, limit |-> limit, reset_s |-> reset_s]

\* One comma-separated part of a state header: <<RuleState>> or <<>> when skipped.
ParsePart(name, rawPart) ==
    LET part == Strip(rawPart)
        pieces == Split(part, ":")
    IN  IF part = <<>> THEN <<>>
        ELSE IF Len(pieces) # 3 THEN <<>>
        ELSE LET c == ParseInt(pieces[1])
                 l == ParseInt(pieces[2])
                 r == ParseInt(pieces[3])
             IN  IF c.ok /\ l.ok /\ r.ok
                 THEN <<RuleState(name, c.val, l.val, r.val)>>
                 ELSE <<>>

RECURSIVE ParseParts(_, _)
ParseParts(name, parts) ==
    IF parts = <<>> THEN <<>>
    ELSE ParsePart(name, Head(parts)) \o ParseParts(name, Tail(parts))

\* Variant: one part that does not parse discards the whole header.
parse_state_header_AllOrNothing(name, raw) ==
    LET parts == Split(raw, ",")
    IN  IF \E i \in 1..Len(parts) : ParsePart(name, parts[i]) = <<>>
        THEN <<>>
        ELSE ParseParts(name, parts)

\* _parse_state_header: the triples of the parts that parse, in order.
parse_state_header(name, raw) == ParseParts(name, Split(raw, ","))

InSeq(x, s) == \E i \in 1..Len(s) : s[i] = x

\* rule_names: the listed rules, then "Ip" and "Account" when not listed.
RuleNames(h) ==
    LET listed == SelectSeq(h.rules, LAMBDA r : r # "")
        withIp == IF InSeq("Ip", listed) THEN listed ELSE Append(listed, "Ip")
    IN  IF InSeq("Account", withIp) THEN withIp ELSE Append(withIp, "Account")

StateHeader(h, rule) == IF rule \in DOMAIN h.state THEN h.state[rule] ELSE <<>>

\* self._last_rules after the loop over rule_names.
RECURSIVE CollectRules(_, _)
CollectRules(h, names) ==
    IF names = <<>> THEN <<>>
    ELSE LET raw == StateHeader(h, Head(names))
         IN  (IF raw = <<>> THEN <<>> ELSE parse_state_header(Head(names), raw))
             \o CollectRules(h, Tail(names))

ParsedRules(h) == CollectRules(h, RuleNames(h))

\* Variant: the block is set to t + ra, an existing longer block is lost.
RetryAfterBlock_NoMax(h, t, b) ==
    LET ra == ParseInt(h.retry_after)
    IN  IF h.retry_after # <<>> /\ ra.ok /\ ra.val > 0
        THEN t + ra.val * TicksPerSecond
        ELSE b

\* Variant: Retry-After is honoured only when the response lists no rules.
RetryAfterBlock_OnlyBare(h, t, b) ==
    LET ra == ParseInt(h.retry_after)
    IN  IF h.retry_after # <<>> /\ ra.ok /\ ra.val > 0 /\ h.rules = <<>>
        THEN Max(b, t + ra.val * TicksPerSecond)
        ELSE b

\* Retry-After: a positive integer raises the block to at least t + ra.
RetryAfterBlock(h, t, b) ==
    LET ra == ParseInt(h.retry_after)
    IN  IF h.retry_after # <<>> /\ ra.ok /\ ra.val > 0
        THEN Max(b, t + ra.val * TicksPerSecond)
        ELSE b

\* Variant: only a rule strictly over its limit blocks.
HardBlockStep_Strict(st, t, b) ==
    IF st.current > st.limit /\ st.reset_s > 0
    THEN LET until == t + st.reset_s * TicksPerSecond
         IN  IF until > b THEN until ELSE b
    ELSE b

\* Variant: a rule that has reached the soft ratio blocks as a full one does.
HardBlockStep_AtSoftRatio(st, t, b) ==
    IF st.current * SoftRatioDen >= SoftRatioNum * st.limit /\ st.reset_s > 0
    THEN LET until == t + st.reset_s * TicksPerSecond
         IN  IF until > b THEN until ELSE b
    ELSE b

\* One parsed triple: a full rule with time left raises the block.
HardBlockStep(st, t, b) ==
    IF st.current >= st.limit /\ st.reset_s > 0
    THEN LET until == t + st.reset_s * TicksPerSecond
         IN  IF until > b THEN until ELSE b
    ELSE b

RECURSIVE HardBlock(_, _, _)
HardBlock(states, t, b) ==
    IF states = <<>> THEN b
    ELSE HardBlock(Tail(states), t, HardBlockStep(Head(states), t, b))

\* Variant: the candidate is floored at 0.2 s but not capped at 3 s.
SoftCandidate_NoCap(st) ==
    IF st.reset_s <= 0 \/ st.limit <= 0 THEN 0
    ELSE IF st.current * SoftRatioDen >= SoftRatioNum * st.limit /\ st.current < st.limit
    THEN Max((st.reset_s * SoftFactorNum * TicksPerSecond) \div SoftFactorDen, SoftMinTicks)
    ELSE 0

\* Soft throttle candidate of one triple, in ticks (0 when it asks for none).
SoftCandidate(st) ==
    IF st.reset_s <= 0 \/ st.limit <= 0 THEN 0
    ELSE IF st.current * SoftRatioDen >= SoftRatioNum * st.limit /\ st.current < st.limit
    THEN Min(Max((st.reset_s * SoftFactorNum * TicksPerSecond) \div SoftFactorDen,
                 SoftMinTicks), SoftMaxTicks)
    ELSE 0

\* Variant: the first triple that asks for a delay decides it.
RECURSIVE SoftSleep_First(_, _)
SoftSleep_First(states, acc) ==
    IF states = <<>> THEN acc
    ELSE SoftSleep_First(Tail(states), IF acc > 0 THEN acc ELSE SoftCandidate(Head(states)))

\* soft_sleep after the loop over self._last_rules: the largest candidate.
RECURSIVE SoftSleep(_, _)
SoftSleep(states, acc) ==
    IF states = <<>> THEN acc
    ELSE SoftSleep(Tail(states), Max(acc, SoftCandidate(Head(states))))

(***************************************************************************)
(* TradeCache and summarize_exchange_json, pure parts.                     *)
(* A listing is modelled by its rate; an upstream result node either       *)
(* carries an offer with a rate or carries none and is skipped.            *)
(***************************************************************************)
Node(rate) == [has_offer |-> TRUE, rate |-> rate]
NoOffer == [has_offer |-> FALSE, rate |-> 0]

Insert(x, sorted) ==
    LET into[rest \in Seq(Int)] ==
            IF rest = <<>> THEN <<x>>
            ELSE IF x < Head(rest) THEN <<x>> \o rest
            ELSE <<Head(rest)>> \o into[Tail(rest)]
    IN  into[sorted]

\* list.sort by rate: ascending, stable.
SortAsc(s) ==
    LET prefix[k \in 0..Len(s)] == IF k = 0 THEN <<>> ELSE Insert(s[k], prefix[k - 1])
    IN  prefix[Len(s)]

RECURSIVE OfferRates(_)
OfferRates(nodes) ==
    IF nodes = <<>> THEN <<>>
    ELSE (IF Head(nodes).has_offer THEN <<Head(nodes).rate>> ELSE <<>>) \o OfferRates(Tail(nodes))

\* seq[:n] for n >= 0
Take(s, n) == SubSeq(s, 1, Min(n, Len(s)))

summarize_exchange_json(data, n) == Take(SortAsc(OfferRates(data.result)), Max(1, n))

NoEntry == [present |-> FALSE, data |-> <<>>, expires_at |-> 0, fetched_at |-> 0]
CacheEntry(data, expires_at, fetched_at) ==
    [present |-> TRUE, data |-> data, expires_at |-> expires_at, fetched_at |-> fetched_at]

Miss == [hit |-> FALSE, data |-> <<>>, fetched_at |-> 0]

\* Variant: an entry still hits at the instant it expires.
CacheGet_Inclusive(st, t, p) ==
    IF st[p].present /\ t <= st[p].expires_at
    THEN [hit |-> TRUE, data |-> st[p].data, fetched_at |-> st[p].fetched_at]
    ELSE Miss

\* TradeCache.get: the entry's data and fetched_at while now < expires_at.
CacheGet(st, t, p) ==
    IF st[p].present /\ t < st[p].expires_at
    THEN [hit |-> TRUE, data |-> st[p].data, fetched_at |-> st[p].fetched_at]
    ELSE Miss

\* Variant: the entry records the time of the write, not the caller's fetched_at.
CacheSetTo_OwnStamp(st, t, p, data, fetched) ==
    [st EXCEPT ![p] = CacheEntry(data, t + TTLTicks, t + 1)]

\* TradeCache.set: replace the entry; expires_at = now + ttl.
CacheSetTo(st, t, p, data, fetched) ==
    [st EXCEPT ![p] = CacheEntry(data, t + TTLTicks, fetched)]

\* Variant: invalidate empties the whole store, as clear_all does.
CacheInvalidate_All(st, p) == [q \in DOMAIN st |-> NoEntry]

\* TradeCache.invalidate: remove the entry when present.
CacheInvalidate(st, p) == IF st[p].present THEN [st EXCEPT ![p] = NoEntry] ELSE st

(***************************************************************************)
(* The cache_entries table of the durable store and the rehydration of the *)
(* TradeCache from it.                                                     *)
(***************************************************************************)
NoRow == [present |-> FALSE, listings_json |-> <<>>, expires_at |-> <<>>]

\* json.dumps of one listing, and ListingSummary(**l) of the loaded dict
ListingJson(l) == [rate |-> l]
ListingFromJson(d) == d.rate

\* DatabasePersistence.save_cache_entry: INSERT OR REPLACE of the pair's row.
save_cache_entry(tbl, p, data, expires_at) ==
    [tbl EXCEPT ![p] = [present |-> TRUE,
                        listings_json |-> [i \in 1..Len(data) |-> ListingJson(data[i])],
                        expires_at |-> isoformat(expires_at)]]

\* DatabasePersistence.load_cache_entries: the keys of the rows with
\* expires_at > now, compared as text.
load_cache_entries(tbl, t) ==
    {p \in DOMAIN tbl : tbl[p].present /\ TextLess(isoformat(t), tbl[p].expires_at)}

\* DatabasePersistence.cleanup_expired_cache: DELETE ... WHERE expires_at <= now
cleanup_expired_cache(tbl, t) ==
    [p \in DOMAIN tbl |->
        IF tbl[p].present /\ ~TextLess(isoformat(t), tbl[p].expires_at) THEN NoRow ELSE tbl[p]]

\* TradeCache._load_from_db up to its call of cleanup_expired_cache.  For the
\* first loaded row it builds CacheEntry(data=..., expires_at=...) without the
\* required fetched_at: the constructor raises TypeError before anything is
\* stored, the handler logs it, and the cleanup is not reached.
LoadCacheFromDb(tbl, t) ==
    LET entries == load_cache_entries(tbl, t)
    IN  [store |-> [p \in DOMAIN tbl |-> NoEntry], failed |-> entries # {}]


(***************************************************************************)
(* HistoricalCache, pure parts.  Rates are whole multiples of 1e-6; a      *)
(* median is kept doubled, so that the mean of the two middle values of an *)
(* even-sized list is a whole number too, and an average is kept as the    *)
(* pair <<sum, count>>.  Arithmetic is exact.                              *)
(***************************************************************************)
Abs(x) == IF x >= 0 THEN x ELSE 0 - x

\* statistics.median(values), doubled
Median2(values) ==
    LET v == SortAsc(values)
        n == Len(v)
    IN  IF n % 2 = 1 THEN 2 * v[(n + 1) \div 2] ELSE v[n \div 2] + v[(n \div 2) + 1]

RECURSIVE SumSeq(_)
SumSeq(s) == IF s = <<>> THEN 0 ELSE Head(s) + SumSeq(Tail(s))

PriceSnapshot(timestamp, best_rate, avg_rate, median_rate, listing_count) ==
    [timestamp |-> timestamp, best_rate |-> best_rate, avg_rate |-> avg_rate,
     median_rate |-> median_rate, listing_count |-> listing_count]

NoSnapshot == PriceSnapshot(0, 0, <<0, 0>>, 0, 0)

\* add_snapshot: the snapshot of a non-empty list of listings read at time t
SnapshotOf(ls, t) == PriceSnapshot(t, ls[1], <<SumSeq(ls), Len(ls)>>, Median2(ls), Len(ls))

\* Variant: the near-duplicate test ignores the age of the last snapshot.
IsDuplicate_AnyAge(last, s) ==
    Abs(last.median_rate - s.median_rate) < DedupEpsilon2

\* add_snapshot's near-duplicate test of the new snapshot s against the last
\* stored one: time_diff < 60 and median_diff < 1e-6.
IsDuplicate(last, s) ==
    /\ s.timestamp - last.timestamp < DedupTicks
    /\ Abs(last.median_rate - s.median_rate) < DedupEpsilon2

\* [s for s in all_snapshots if s.timestamp >= cutoff], cutoff = now - 7 days
InWindow(snaps, t) == SelectSeq(snaps, LAMBDA s : s.timestamp >= t - WindowTicks)

\* int(i * step) with step = n / points in floating point: the whole part of
\* i * n / points, except that a product falling on a whole number can come
\* out just below it when step is not exact (low = 1).
SampleIndex(i, n, points, low) ==
    IF low = 1 /\ i > 0 /\ (i * n) % points = 0 /\ n % points # 0
    THEN ((i * n) \div points) - 1
    ELSE (i * n) \div points

\* [int(i * step) for i in range(points)], as 0-based indices
SampleIndices(n, points, low) == [j \in 1..points |-> SampleIndex(j - 1, n, points, low)]

HistoryPoint(s) ==
    [timestamp |-> isoformat(s.timestamp), median_rate |-> s.median_rate,
     avg_rate |-> s.avg_rate, listing_count |-> s.listing_count]

\* HistoricalCache.get_history; max_points = -1 stands for None.
get_history(snaps, t, max_points, low) ==
    LET w == InWindow(snaps, t)
        picked == IF max_points \notin {-1, 0} /\ Len(w) > max_points
                  THEN [j \in 1..max_points |-> w[SampleIndices(Len(w), max_points, low)[j] + 1]]
                  ELSE w
    IN  [j \in 1..Len(picked) |-> HistoryPoint(picked[j])]

\* round(num / den, 0) for den > 0, ties to the even neighbour
RoundDiv(num, den) ==
    LET q == num \div den
        r == num % den
    IN  IF 2 * r < den THEN q
        ELSE IF 2 * r > den THEN q + 1
        ELSE IF q % 2 = 0 THEN q ELSE q + 1

\* round(m, 6) of the median m of a list of snapshot medians, m given as
\* Median2 of the doubled medians, that is in quarters of 1e-6: the nearest
\* whole multiple of 1e-6; a value half-way between two is not exact in
\* floating point and goes down when it comes out low (low = 1), else up.
Round6(m4, low) ==
    LET q == m4 \div 4
        r == m4 % 4
    IN  IF r = 0 \/ r = 1 \/ (r = 2 /\ low = 1) THEN 4 * q ELSE 4 * (q + 1)

\* The indices of the sparkline's points, 0-based.
SparklineIndices_NoPin(n, low) ==
    IF n > SPARKLINE_POINTS THEN SampleIndices(n, SPARKLINE_POINTS, low)
    ELSE [j \in 1..n |-> j - 1]

SparklineIndices(n, low) ==
    IF n > SPARKLINE_POINTS
    THEN LET indices == SampleIndices(n, SPARKLINE_POINTS, low)
         IN  IF indices[SPARKLINE_POINTS] # n - 1
             THEN [indices EXCEPT ![SPARKLINE_POINTS] = n - 1]
             ELSE indices
    ELSE [j \in 1..n |-> j - 1]

\* direction from change_percent = num / den * 100, den > 0
Direction_Inclusive(num, den) ==
    IF num * 100 >= TrendPercent * den THEN "up"
    ELSE IF num * 100 <= (0 - TrendPercent) * den THEN "down"
    ELSE "neutral"

Direction(num, den) ==
    IF num * 100 > TrendPercent * den THEN "up"
    ELSE IF num * 100 < (0 - TrendPercent) * den THEN "down"
    ELSE "neutral"

\* HistoricalCache.get_trend.  change_percent is in hundredths of a percent,
\* which is what round(change_percent, 2) leaves.  Beside the fields of the
\* returned dict the record keeps the sparkline's indices and the two
\* medians (doubled) it was computed from; lowest_median and highest_median
\* are None (-1) for fewer than two snapshots.
get_trend(snaps, t, low) ==
    LET w == InWindow(snaps, t)
        n == Len(w)
        k == Max(1, n \div TrendFraction)
        medians == [j \in 1..n |-> w[j].median_rate]
        start_median == Median2(SubSeq(medians, 1, k))
        end_median == Median2(SubSeq(medians, n - k + 1, n))
        indices == SparklineIndices(n, low)
        \* snapshots[i:i+k] for i in range(0, n, k), each with its median
        chunks == {i \in 0..(n - 1) : i % k = 0}
        chunk_median == [i \in chunks |-> Median2(SubSeq(medians, i + 1, Min(i + k, n)))]
        lowest_median == CHOOSE m \in {chunk_median[i] : i \in chunks} :
                             \A i \in chunks : m <= chunk_median[i]
        highest_median == CHOOSE m \in {chunk_median[i] : i \in chunks} :
                              \A i \in chunks : m >= chunk_median[i]
    IN  IF n < 2
        THEN [direction |-> "neutral", change_percent |-> 0, data_points |-> n,
              sparkline |-> [j \in 1..n |-> w[j].best_rate],
              indices |-> [j \in 1..n |-> j - 1], start |-> 0, end |-> 0,
              lowest_median |-> -1, highest_median |-> -1]
        ELSE [direction |-> IF start_median = 0 THEN "neutral"
                            ELSE Direction(end_median - start_median, start_median),
              change_percent |-> IF start_median = 0 THEN 0
                                 ELSE RoundDiv((end_median - start_median) * 10000, start_median),
              data_points |-> n,
              sparkline |-> [j \in 1..Len(indices) |-> medians[indices[j] + 1]],
              indices |-> indices, start |-> start_median, end |-> end_median,
              lowest_median |-> Round6(lowest_median, low),
              highest_median |-> Round6(highest_median, low)]

(***************************************************************************)
(* The price_snapshots table of the durable store: a sequence of rows in   *)
(* insertion (rowid) order.                                                *)
(***************************************************************************)
SnapshotRow(p, s) ==
    [pair |-> p, timestamp |-> isoformat(s.timestamp), best_rate |-> s.best_rate,
     avg_rate |-> s.avg_rate, median_rate |-> s.median_rate,
     listing_count |-> s.listing_count]

RowSnapshot(row) ==
    PriceSnapshot(fromisoformat(row.timestamp), row.best_rate, row.avg_rate,
                  row.median_rate, row.listing_count)

\* ORDER BY timestamp ASC: by the text, rows of equal text in rowid order.
RECURSIVE InsertRow(_, _)
InsertRow(row, sorted) ==
    IF sorted = <<>> THEN <<row>>
    ELSE IF TextLess(row.timestamp, sorted[Len(sorted)].timestamp)
         THEN Append(InsertRow(row, SubSeq(sorted, 1, Len(sorted) - 1)), sorted[Len(sorted)])
         ELSE Append(sorted, row)

RECURSIVE OrderByTimestamp(_)
OrderByTimestamp(rows) ==
    IF rows = <<>> THEN <<>>
    ELSE InsertRow(rows[Len(rows)], OrderByTimestamp(SubSeq(rows, 1, Len(rows) - 1)))

RowsOf(tbl, p) == SelectSeq(tbl, LAMBDA row : row.pair = p)

\* DatabasePersistence.save_snapshot: no insert when the pair's row of the
\* greatest timestamp has the same median and lies within a minute of the
\* new snapshot, before or after it.
save_snapshot(tbl, p, s) ==
    LET rows == OrderByTimestamp(RowsOf(tbl, p))
        last == RowSnapshot(rows[Len(rows)])
    IN  IF rows # <<>>
           /\ Abs(s.timestamp - last.timestamp) < DedupTicks
           /\ Abs(last.median_rate - s.median_rate) < DedupEpsilon2
        THEN tbl
        ELSE Append(tbl, SnapshotRow(p, s))

\* DatabasePersistence.load_all_snapshots, for one pair: the rows with
\* timestamp > cutoff, by ascending timestamp.
load_all_snapshots(tbl, p, t) ==
    LET cutoff == isoformat(t - RetentionTicks)
        rows == OrderByTimestamp(SelectSeq(RowsOf(tbl, p),
                                           LAMBDA row : TextLess(cutoff, row.timestamp)))
    IN  [j \in 1..Len(rows) |-> RowSnapshot(rows[j])]

\* Variant: the purge keeps nothing that is older than half the retention.
cleanup_old_snapshots_Eager(tbl, t) ==
    LET cutoff == isoformat(t - (RetentionTicks \div 2))
    IN  SelectSeq(tbl, LAMBDA row : TextLess(cutoff, row.timestamp))

\* DatabasePersistence.cleanup_old_snapshots: DELETE ... WHERE timestamp <= cutoff
cleanup_old_snapshots(tbl, t) ==
    LET cutoff == isoformat(t - RetentionTicks)
    IN  SelectSeq(tbl, LAMBDA row : TextLess(cutoff, row.timestamp))

\* What a call on the cache or the history left in `out`.
Call(name, p, value) == [call |-> name, pair |-> p, value |-> value]
NoCall == Call("none", "a_b", <<>>)


(***************************************************************************)
(* Upstream responses the model draws from.                                *)
(***************************************************************************)
\* header texts
S45 == <<"4", "5", ":", "3", "0", "0", ":", "3">>
SRA2 == <<"2">>
SRA1 == <<"1">>
SRAX == <<"x">>
SMAL == <<"7", ":", "x">>
SLOW == <<"1", ":", "5", ":", "1", "0">>
SFULL1 == <<"5", ":", "5", ":", "1", ",", " ", "4", ":", "5", ":", "8">>
SFULL3 == <<"6", ":", "5", ":", "3">>
SSOFT == <<"4", ":", "5", ":", "8", ",", "9", ":", "9", ",", ",", "+", "9", ":", "1", "0", ":", "1", "0", "0">>
SSOFTMIN == <<"9", ":", "1", "0", ":", "2">>
SSOFTZERO == <<"4", ":", "5", ":", "0">>

NoStates == [r \in {} |-> <<>>]
Headers(retry_after, rules, state) ==
    [retry_after |-> retry_after, rules |-> rules, state |-> state]

\* no rate-limit headers at all
HNone == Headers(<<>>, <<>>, NoStates)
\* test_rate_limiter.py h2: X-Rate-Limit-Ip-State: 45:300:3
H45 == Headers(<<>>, <<"Ip", "Account">>, [r \in {"Ip"} |-> S45])
\* test_rate_limiter.py h3: Retry-After: 2
HRetry2 == Headers(SRA2, <<>>, NoStates)
\* Retry-After: 1 with a malformed Ip state and an Account state below its limit
HRetry1 == Headers(SRA1, <<"Ip">>, [r \in {"Ip", "Account"} |-> IF r = "Ip" THEN SMAL ELSE SLOW])
\* a full rule with 1 s left, then a nearly full one: hard block and soft delay
HFull1 == Headers(<<>>, <<"Account", "", "Ip">>, [r \in {"Ip"} |-> SFULL1])
\* an over-full rule with 3 s left under a rule the response lists itself,
\* next to a Retry-After that is not a number
HFull3 == Headers(SRAX, <<"Client">>, [r \in {"Client"} |-> SFULL3])
\* a nearly full rule and a malformed part: soft delay only
HSoft == Headers(<<>>, <<>>, [r \in {"Account"} |-> SSOFT])

\* a nearly full rule with 2 s left: 5% of it is under the 0.2 s floor
HSoftMin == Headers(<<>>, <<"Ip">>, [r \in {"Ip"} |-> SSOFTMIN])
\* a nearly full rule whose reset time is 0
HSoftZero == Headers(<<>>, <<"Ip">>, [r \in {"Ip"} |-> SSOFTZERO])

GovHeaders == {HNone, H45, HRetry2, HRetry1, HFull1, HFull3, HSoft, HSoftMin, HSoftZero}

\* self._last_rules after on_response, for each of the headers
LastRulesOf == [h \in GovHeaders |-> ParsedRules(h)]

\* resp.json(): json = FALSE stands for a body that does not parse or is {}.
Body(json, result) == [json |-> json, result |-> result]
NoBody == Body(FALSE, <<>>)
Bodies == {NoBody, Body(TRUE, <<>>), Body(TRUE, <<Node(2), NoOffer, Node(1)>>)}
\* 21 offers, the dearest first
ManyOffers == [i \in 1..(CacheTopN + 1) |-> Node(CacheTopN + 2 - i)]

\* kind "response": a status, headers and a body; kind "exception": the
\* transport raised (timeout, connection error).
Response(kind, status, headers, body) ==
    [kind |-> kind, status |-> status, headers |-> headers, body |-> body]
TransportError == Response("exception", 0, HNone, NoBody)
NoResponse == Response("none", 0, HNone, NoBody)

GovResponses ==
    {Response("response", 200, h, NoBody) : h \in GovHeaders} \cup {TransportError}
FetchResponses ==
    {Response("response", 200, HNone, b) : b \in Bodies}
    \cup {Response("response", 429, HRetry1, NoBody), TransportError}

(***************************************************************************)
(* State.                                                                  *)
(***************************************************************************)
VARIABLES
    now,              \* the clock (time.time, datetime.utcnow), in ticks
    block_until,      \* RateLimiter._block_until
    soft_delay_until, \* RateLimiter._soft_delay_until
    last_rules,       \* RateLimiter._last_rules
    store,            \* TradeCache._store: pair -> entry
    pc,               \* per caller: its position
    op,               \* per caller: the operation it runs
    pair,             \* per caller: the pair it fetches
    top_n,            \* per caller: the top_n it was called with
    attempt,          \* per caller: the retry loop's attempt
    wake,             \* per caller: the end of its current time.sleep
    resp,             \* per caller: the response it holds
    listings,         \* per caller: summarize_exchange_json's result
    fetched_at,       \* per caller: the fetched_at it read
    result,           \* per caller: the tuple its fetch returned
    sent,             \* per caller: upstream requests issued by the running call
    gov_used,         \* per caller: the running call has used the Governor
    raised,           \* per caller: the block was raised while it waited
    forced,           \* per pair: the entry the last successful forced fetch wrote
    rewritten,        \* per pair: another fetch wrote the pair after that
    hit_at_call,      \* per caller: the pair had an unexpired entry when the call began
    db_cache,         \* the durable store's cache_entries table: pair -> row
    history,          \* HistoricalCache._history: pair -> snapshots
    db_snapshots,     \* the durable store's price_snapshots table, in insertion order
    snap,             \* per caller: the snapshot its add_snapshot is recording
    boot,             \* the position of the process in its startup
    out,              \* the latest call on the cache or the history and what it returned
    route             \* the trade route being served: its loop over cfg.trades

govVars == <<block_until, soft_delay_until, last_rules>>
callVars == <<pc, op, pair, top_n, attempt, wake, resp, listings, fetched_at, result, sent, gov_used>>
histVars == <<raised, forced, rewritten, hit_at_call>>
historyVars == <<history, db_snapshots, snap, boot, out, route>>
vars == <<now, govVars, store, callVars, histVars, db_cache, historyVars>>

NoResult == [returned |-> FALSE, ok |-> FALSE, listings |-> <<>>, was_cached |-> FALSE, fetched_at |-> 0]
Result(ok, ls, was_cached, at) ==
    [returned |-> TRUE, ok |-> ok, listings |-> ls, was_cached |-> was_cached, fetched_at |-> at]
\* (None, False, None)
Failure == Result(FALSE, <<>>, FALSE, 0)

TopNs == {1}

\* No trade route is being served.
NoRoute ==
    [handler |-> "none", force |-> FALSE, idx |-> 0, at |-> "idle", connected |-> TRUE,
     blocked_at_call |-> FALSE, was_cached |-> FALSE, wake |-> 0, results |-> <<>>,
     raised |-> "none"]

Init ==
    /\ now = 0
    /\ block_until = 0
    /\ soft_delay_until = 0
    /\ last_rules = <<>>
    /\ store = [p \in Pairs |-> NoEntry]
    /\ pc = [t \in Threads |-> "idle"]
    /\ op = [t \in Threads |-> "none"]
    /\ pair = [t \in Threads |-> "a_b"]
    /\ top_n = [t \in Threads |-> 0]
    /\ attempt = [t \in Threads |-> 0]
    /\ wake = [t \in Threads |-> 0]
    /\ resp = [t \in Threads |-> NoResponse]
    /\ listings = [t \in Threads |-> <<>>]
    /\ fetched_at = [t \in Threads |-> 0]
    /\ result = [t \in Threads |-> NoResult]
    /\ sent = [t \in Threads |-> 0]
    /\ gov_used = [t \in Threads |-> FALSE]
    /\ raised = [t \in Threads |-> FALSE]
    /\ forced = [p \in Pairs |-> NoEntry]
    /\ rewritten = [p \in Pairs |-> FALSE]
    /\ hit_at_call = [t \in Threads |-> FALSE]
    /\ db_cache = [p \in Pairs |-> NoRow]
    /\ history = [p \in Pairs |-> <<>>]
    /\ db_snapshots = <<>>
    /\ snap = [t \in Threads |-> NoSnapshot]
    /\ boot = "up"
    /\ out = NoCall
    /\ route = NoRoute

(***************************************************************************)
(* Derived Governor properties.                                            *)
(***************************************************************************)
blocked == now < block_until
block_remaining == Max(0, block_until - now)
soft_remaining == Max(0, soft_delay_until - now)
throttled_remaining == Max(block_remaining, soft_remaining)
debug_state == [i \in 1..Len(last_rules) |->
                  <<last_rules[i].name, last_rules[i].current, last_rules[i].limit, last_rules[i].reset_s>>]

(***************************************************************************)
(* The clock.                                                              *)
(***************************************************************************)
Tick ==
    /\ now + Quantum <= MaxTime
    /\ now' = now + Quantum
    /\ UNCHANGED <<govVars, store, callVars, histVars, db_cache, historyVars>>

(***************************************************************************)
(* Entering the operations.                                                *)
(***************************************************************************)
Enter(t, o, p, n) ==
    /\ op' = [op EXCEPT ![t] = o]
    /\ pair' = [pair EXCEPT ![t] = p]
    /\ top_n' = [top_n EXCEPT ![t] = n]
    /\ attempt' = [attempt EXCEPT ![t] = 0]
    /\ sent' = [sent EXCEPT ![t] = 0]

\* A caller of the shared Governor outside the fetch functions
\* (_post_exchange on its own, the stash request helper).
CallPostExchange(t, p) ==
    /\ pc[t] = "idle"
    /\ Enter(t, "post_exchange", p, 0)
    /\ pc' = [pc EXCEPT ![t] = "wait"]
    /\ gov_used' = [gov_used EXCEPT ![t] = TRUE]
    /\ UNCHANGED <<now, db_cache, historyVars, govVars, store, wake, resp, listings, fetched_at, result, histVars>>

\* Variant: the Governor gate comes before the cache lookup is honoured, so
\* a hit goes upstream like a miss.
FetchWithCache_GateFirst(t, p, n) ==
    /\ pc[t] = "idle"
    /\ Enter(t, "with_cache", p, n)
    /\ pc' = [pc EXCEPT ![t] = "wait"]
    /\ gov_used' = [gov_used EXCEPT ![t] = TRUE]
    /\ hit_at_call' = [hit_at_call EXCEPT ![t] = CacheGet(store, now, p).hit]
    /\ UNCHANGED <<now, db_cache, historyVars, govVars, store, wake, resp, listings, fetched_at, result, raised, forced, rewritten>>

\* fetch_listings_with_cache up to the cache lookup: a hit returns at once,
\* a miss enters the retrying upstream call.
FetchWithCache(t, p, n) ==
    /\ pc[t] = "idle"
    /\ Enter(t, "with_cache", p, n)
    /\ LET cached == CacheGet(store, now, p)
       IN  IF cached.hit
           THEN /\ pc' = [pc EXCEPT ![t] = "done"]
                /\ result' = [result EXCEPT ![t] = Result(TRUE, Take(cached.data, n), TRUE, cached.fetched_at)]
                /\ gov_used' = [gov_used EXCEPT ![t] = FALSE]
           ELSE /\ pc' = [pc EXCEPT ![t] = "wait"]
                /\ result' = result
                /\ gov_used' = [gov_used EXCEPT ![t] = TRUE]
    /\ hit_at_call' = [hit_at_call EXCEPT ![t] = CacheGet(store, now, p).hit]
    /\ UNCHANGED <<now, db_cache, historyVars, govVars, store, wake, resp, listings, fetched_at, raised, forced, rewritten>>

\* Variant: the forced fetch answers from an unexpired entry.
FetchForce_ServeCached(t, p, n) ==
    /\ pc[t] = "idle"
    /\ Enter(t, "force", p, n)
    /\ LET cached == CacheGet(store, now, p)
       IN  IF cached.hit
           THEN /\ pc' = [pc EXCEPT ![t] = "done"]
                /\ result' = [result EXCEPT ![t] = Result(TRUE, Take(cached.data, n), TRUE, cached.fetched_at)]
                /\ gov_used' = [gov_used EXCEPT ![t] = FALSE]
                /\ UNCHANGED <<store, forced, rewritten>>
           ELSE /\ pc' = [pc EXCEPT ![t] = "wait"]
                /\ result' = result
                /\ gov_used' = [gov_used EXCEPT ![t] = TRUE]
                /\ store' = CacheInvalidate(store, p)
                /\ forced' = [forced EXCEPT ![p] = NoEntry]
                /\ rewritten' = [rewritten EXCEPT ![p] = FALSE]
    /\ hit_at_call' = [hit_at_call EXCEPT ![t] = CacheGet(store, now, p).hit]
    /\ UNCHANGED <<now, db_cache, historyVars, govVars, wake, resp, listings, fetched_at, raised>>

\* Variant: the forced fetch leaves the entry in place until it has a new
\* one to store.
FetchForce_KeepEntry(t, p, n) ==
    /\ pc[t] = "idle"
    /\ Enter(t, "force", p, n)
    /\ store' = store
    /\ forced' = [forced EXCEPT ![p] = NoEntry]
    /\ rewritten' = [rewritten EXCEPT ![p] = FALSE]
    /\ pc' = [pc EXCEPT ![t] = "wait"]
    /\ gov_used' = [gov_used EXCEPT ![t] = TRUE]
    /\ hit_at_call' = [hit_at_call EXCEPT ![t] = CacheGet(store, now, p).hit]
    /\ UNCHANGED <<now, db_cache, historyVars, govVars, wake, resp, listings, fetched_at, result, raised>>

\* fetch_listings_force up to the retry loop: the entry is invalidated.
FetchForce(t, p, n) ==
    /\ pc[t] = "idle"
    /\ Enter(t, "force", p, n)
    /\ store' = CacheInvalidate(store, p)
    /\ forced' = [forced EXCEPT ![p] = NoEntry]
    /\ rewritten' = [rewritten EXCEPT ![p] = FALSE]
    /\ pc' = [pc EXCEPT ![t] = "wait"]
    /\ gov_used' = [gov_used EXCEPT ![t] = TRUE]
    /\ hit_at_call' = [hit_at_call EXCEPT ![t] = CacheGet(store, now, p).hit]
    /\ UNCHANGED <<now, db_cache, historyVars, govVars, wake, resp, listings, fetched_at, result, raised>>

(***************************************************************************)
(* RateLimiter.wait_before_request.                                        *)
(***************************************************************************)
\* Variant: the check returns only when now is past the block, so a caller
\* of an idle Governor goes to the sleep branch.
WaitCheck_Strict(t) ==
    /\ pc[t] = "wait"
    /\ LET block == Max(block_until, soft_delay_until)
       IN  IF now > block
           THEN /\ pc' = [pc EXCEPT ![t] = "post"]
                /\ wake' = wake
           ELSE /\ pc' = [pc EXCEPT ![t] = "sleep"]
                /\ wake' = [wake EXCEPT ![t] = now + Min(block - now, SleepCapTicks)]
    /\ UNCHANGED <<now, db_cache, historyVars, govVars, store, op, pair, top_n, attempt, resp, listings,
                   fetched_at, result, sent, gov_used, histVars>>

\* One pass of the loop, under the lock: return when now >= block, else
\* sleep min(sleep_for, 2.0) outside the lock.
WaitCheck(t) ==
    /\ pc[t] = "wait"
    /\ LET block == Max(block_until, soft_delay_until)
       IN  IF now >= block
           THEN /\ pc' = [pc EXCEPT ![t] = "post"]
                /\ wake' = wake
           ELSE /\ pc' = [pc EXCEPT ![t] = "sleep"]
                /\ wake' = [wake EXCEPT ![t] = now + Min(block - now, SleepCapTicks)]
    /\ UNCHANGED <<now, db_cache, historyVars, govVars, store, op, pair, top_n, attempt, resp, listings,
                   fetched_at, result, sent, gov_used, histVars>>

\* Variant: one sleep, then the request, without another check.
WaitWake_NoRecheck(t) ==
    /\ pc[t] = "sleep"
    /\ now >= wake[t]
    /\ pc' = [pc EXCEPT ![t] = "post"]
    /\ wake' = [wake EXCEPT ![t] = 0]
    /\ UNCHANGED <<now, db_cache, historyVars, govVars, store, op, pair, top_n, attempt, resp, listings,
                   fetched_at, result, sent, gov_used, histVars>>

\* time.sleep is over: back to the check.
WaitWake(t) ==
    /\ pc[t] = "sleep"
    /\ now >= wake[t]
    /\ pc' = [pc EXCEPT ![t] = "wait"]
    /\ wake' = [wake EXCEPT ![t] = 0]
    /\ UNCHANGED <<now, db_cache, historyVars, govVars, store, op, pair, top_n, attempt, resp, listings,
                   fetched_at, result, sent, gov_used, histVars>>

(***************************************************************************)
(* _post_exchange and the retry loop around it.                            *)
(***************************************************************************)
\* Variant: the loop allows one attempt more than retries + 1.
AttemptFailed_OneMore(t) ==
    /\ resp' = [resp EXCEPT ![t] = NoResponse]
    /\ IF op[t] = "post_exchange"
       THEN /\ pc' = [pc EXCEPT ![t] = "done"]
            /\ UNCHANGED <<wake, result, attempt>>
       ELSE IF attempt[t] < Retries + 1
       THEN /\ pc' = [pc EXCEPT ![t] = "backoff"]
            /\ wake' = [wake EXCEPT ![t] = now + BackoffTicks * (2 ^ attempt[t])]
            /\ UNCHANGED <<result, attempt>>
       ELSE /\ pc' = [pc EXCEPT ![t] = "done"]
            /\ wake' = wake
            /\ attempt' = [attempt EXCEPT ![t] = 0]
            /\ result' = [result EXCEPT ![t] = Failure]

\* The attempt failed (_post_exchange returned None): sleep backoff_s * 2^attempt
\* when attempts remain, else return (None, False, None).
AttemptFailed(t) ==
    /\ resp' = [resp EXCEPT ![t] = NoResponse]
    /\ IF op[t] = "post_exchange"
       THEN /\ pc' = [pc EXCEPT ![t] = "done"]
            /\ UNCHANGED <<wake, result, attempt>>
       ELSE IF attempt[t] < Retries
       THEN /\ pc' = [pc EXCEPT ![t] = "backoff"]
            /\ wake' = [wake EXCEPT ![t] = now + BackoffTicks * (2 ^ attempt[t])]
            /\ UNCHANGED <<result, attempt>>
       ELSE /\ pc' = [pc EXCEPT ![t] = "done"]
            /\ wake' = wake
            /\ attempt' = [attempt EXCEPT ![t] = 0]
            /\ result' = [result EXCEPT ![t] = Failure]

\* requests.post: the request goes upstream and r comes back.
PostRequest(t, r) ==
    /\ pc[t] = "post"
    /\ sent' = [sent EXCEPT ![t] = sent[t] + 1]
    /\ raised' = [raised EXCEPT ![t] = FALSE]
    /\ IF r.kind = "exception"
       THEN AttemptFailed(t)
       ELSE /\ pc' = [pc EXCEPT ![t] = "on_response"]
            /\ resp' = [resp EXCEPT ![t] = r]
            /\ UNCHANGED <<wake, result, attempt>>
    /\ UNCHANGED <<now, db_cache, historyVars, govVars, store, op, pair, top_n, listings, fetched_at,
                   gov_used, forced, rewritten, hit_at_call>>

\* Variant: the 429 check of _post_exchange comes before on_response, which
\* then never sees a 429.
OnResponse_Not429(t) ==
    /\ pc[t] = "on_response"
    /\ LET h == resp[t].headers
           rules == LastRulesOf[h]
           soft_sleep == SoftSleep(rules, 0)
       IN  IF resp[t].status = 429
           THEN UNCHANGED govVars
           ELSE /\ block_until' = HardBlock(rules, now, RetryAfterBlock(h, now, block_until))
                /\ last_rules' = rules
                /\ soft_delay_until' = IF soft_sleep > 0 THEN now + soft_sleep ELSE 0
    /\ raised' = [u \in Threads |->
                    IF u # t /\ pc[u] \in {"wait", "sleep"} /\ block_until' > block_until
                    THEN TRUE ELSE raised[u]]
    /\ IF resp[t].status = 200 /\ resp[t].body.json /\ op[t] # "post_exchange"
       THEN /\ pc' = [pc EXCEPT ![t] = "summarize"]
            /\ resp' = [resp EXCEPT ![t] = Response("response", 200, HNone, resp[t].body)]
            /\ UNCHANGED <<wake, result, attempt>>
       ELSE AttemptFailed(t)
    /\ UNCHANGED <<now, db_cache, historyVars, store, op, pair, top_n, listings, fetched_at,
                   sent, gov_used, forced, rewritten, hit_at_call>>

\* Variant: on_response does not reset _soft_delay_until first, so a delay
\* scheduled by an earlier response stays when this one schedules none.
OnResponse_SoftKept(t) ==
    /\ pc[t] = "on_response"
    /\ LET h == resp[t].headers
           rules == LastRulesOf[h]
           soft_sleep == SoftSleep(rules, 0)
       IN  /\ block_until' = HardBlock(rules, now, RetryAfterBlock(h, now, block_until))
           /\ last_rules' = rules
           /\ soft_delay_until' = IF soft_sleep > 0 THEN now + soft_sleep ELSE soft_delay_until
    /\ raised' = [u \in Threads |->
                    IF u # t /\ pc[u] \in {"wait", "sleep"} /\ block_until' > block_until
                    THEN TRUE ELSE raised[u]]
    /\ IF resp[t].status = 200 /\ resp[t].body.json /\ op[t] # "post_exchange"
       THEN /\ pc' = [pc EXCEPT ![t] = "summarize"]
            /\ resp' = [resp EXCEPT ![t] = Response("response", 200, HNone, resp[t].body)]
            /\ UNCHANGED <<wake, result, attempt>>
       ELSE AttemptFailed(t)
    /\ UNCHANGED <<now, db_cache, historyVars, store, op, pair, top_n, listings, fetched_at,
                   sent, gov_used, forced, rewritten, hit_at_call>>

\* Variant: on_response does not empty _last_rules first, so the triples of
\* earlier responses stay in front of this one's.
OnResponse_RulesKept(t) ==
    /\ pc[t] = "on_response"
    /\ LET h == resp[t].headers
           rules == LastRulesOf[h]
           soft_sleep == SoftSleep(rules, 0)
       IN  /\ block_until' = HardBlock(rules, now, RetryAfterBlock(h, now, block_until))
           /\ last_rules' = IF Len(last_rules) + Len(rules) <= 4 THEN last_rules \o rules ELSE rules
           /\ soft_delay_until' = IF soft_sleep > 0 THEN now + soft_sleep ELSE 0
    /\ raised' = [u \in Threads |->
                    IF u # t /\ pc[u] \in {"wait", "sleep"} /\ block_until' > block_until
                    THEN TRUE ELSE raised[u]]
    /\ IF resp[t].status = 200 /\ resp[t].body.json /\ op[t] # "post_exchange"
       THEN /\ pc' = [pc EXCEPT ![t] = "summarize"]
            /\ resp' = [resp EXCEPT ![t] = Response("response", 200, HNone, resp[t].body)]
            /\ UNCHANGED <<wake, result, attempt>>
       ELSE AttemptFailed(t)
    /\ UNCHANGED <<now, db_cache, historyVars, store, op, pair, top_n, listings, fetched_at,
                   sent, gov_used, forced, rewritten, hit_at_call>>

\* RateLimiter.on_response under the lock, then the status checks and
\* resp.json() of _post_exchange.
OnResponse(t) ==
    /\ pc[t] = "on_response"
    /\ LET h == resp[t].headers
           rules == LastRulesOf[h]
           soft_sleep == SoftSleep(rules, 0)
       IN  /\ block_until' = HardBlock(rules, now, RetryAfterBlock(h, now, block_until))
           /\ last_rules' = rules
           /\ soft_delay_until' = IF soft_sleep > 0 THEN now + soft_sleep ELSE 0
    /\ raised' = [u \in Threads |->
                    IF u # t /\ pc[u] \in {"wait", "sleep"} /\ block_until' > block_until
                    THEN TRUE ELSE raised[u]]
    /\ IF resp[t].status = 200 /\ resp[t].body.json /\ op[t] # "post_exchange"
       THEN /\ pc' = [pc EXCEPT ![t] = "summarize"]
            /\ resp' = [resp EXCEPT ![t] = Response("response", 200, HNone, resp[t].body)]
            /\ UNCHANGED <<wake, result, attempt>>
       ELSE AttemptFailed(t)
    /\ UNCHANGED <<now, db_cache, historyVars, store, op, pair, top_n, listings, fetched_at,
                   sent, gov_used, forced, rewritten, hit_at_call>>

\* The backoff sleep is over: the next attempt.
BackoffWake(t) ==
    /\ pc[t] = "backoff"
    /\ now >= wake[t]
    /\ attempt' = [attempt EXCEPT ![t] = attempt[t] + 1]
    /\ pc' = [pc EXCEPT ![t] = "wait"]
    /\ wake' = [wake EXCEPT ![t] = 0]
    /\ UNCHANGED <<now, db_cache, historyVars, govVars, store, op, pair, top_n, resp, listings,
                   fetched_at, result, sent, gov_used, histVars>>

\* Variant: the listings are summarised down to the caller's top_n.
Summarize_TopN(t) ==
    /\ pc[t] = "summarize"
    /\ listings' = [listings EXCEPT ![t] = summarize_exchange_json(resp[t].body, top_n[t])]
    /\ fetched_at' = [fetched_at EXCEPT ![t] = now]
    /\ pc' = [pc EXCEPT ![t] = "set"]
    /\ resp' = [resp EXCEPT ![t] = NoResponse]
    /\ UNCHANGED <<now, db_cache, historyVars, govVars, store, op, pair, top_n, attempt, wake,
                   result, sent, gov_used, histVars>>

\* listings = summarize_exchange_json(raw, top_n=20); fetched_at = utcnow()
Summarize(t) ==
    /\ pc[t] = "summarize"
    /\ listings' = [listings EXCEPT ![t] = summarize_exchange_json(resp[t].body, CacheTopN)]
    /\ fetched_at' = [fetched_at EXCEPT ![t] = now]
    /\ pc' = [pc EXCEPT ![t] = "set"]
    /\ resp' = [resp EXCEPT ![t] = NoResponse]
    /\ UNCHANGED <<now, db_cache, historyVars, govVars, store, op, pair, top_n, attempt, wake,
                   result, sent, gov_used, histVars>>

\* cache.set(...) and return (listings[:top_n], False, fetched_at)
CacheSet(t) ==
    /\ pc[t] = "set"
    /\ store' = CacheSetTo(store, now, pair[t], listings[t], fetched_at[t])
    /\ result' = [result EXCEPT ![t] = Result(TRUE, Take(listings[t], top_n[t]), FALSE, fetched_at[t])]
    /\ pc' = [pc EXCEPT ![t] = "done"]
    /\ IF op[t] = "force"
       THEN /\ forced' = [forced EXCEPT ![pair[t]] =
                           CacheEntry(listings[t], store'[pair[t]].expires_at, fetched_at[t])]
            /\ rewritten' = [rewritten EXCEPT ![pair[t]] = FALSE]
       ELSE /\ forced' = forced
            /\ rewritten' = [rewritten EXCEPT ![pair[t]] = forced[pair[t]].present]
    /\ listings' = [listings EXCEPT ![t] = <<>>]
    /\ fetched_at' = [fetched_at EXCEPT ![t] = 0]
    /\ attempt' = [attempt EXCEPT ![t] = 0]
    /\ db_cache' = save_cache_entry(db_cache, pair[t], listings[t], store'[pair[t]].expires_at)
    /\ UNCHANGED <<now, historyVars, govVars, op, pair, top_n, wake, resp, sent, gov_used, raised, hit_at_call>>

\* The caller has its result; it is free for the next call.
Return(t) ==
    /\ pc[t] = "done"
    /\ pc' = [pc EXCEPT ![t] = "idle"]
    /\ op' = [op EXCEPT ![t] = "none"]
    /\ top_n' = [top_n EXCEPT ![t] = 0]
    /\ attempt' = [attempt EXCEPT ![t] = 0]
    /\ wake' = [wake EXCEPT ![t] = 0]
    /\ resp' = [resp EXCEPT ![t] = NoResponse]
    /\ listings' = [listings EXCEPT ![t] = <<>>]
    /\ fetched_at' = [fetched_at EXCEPT ![t] = 0]
    /\ result' = [result EXCEPT ![t] = NoResult]
    /\ sent' = [sent EXCEPT ![t] = 0]
    /\ gov_used' = [gov_used EXCEPT ![t] = FALSE]
    /\ raised' = [raised EXCEPT ![t] = FALSE]
    /\ hit_at_call' = [hit_at_call EXCEPT ![t] = FALSE]
    /\ UNCHANGED <<now, db_cache, historyVars, govVars, store, pair, forced, rewritten>>

(***************************************************************************)
(* The Governor's status reads, each under one `with self._lock`.          *)
(***************************************************************************)
\* positions of a caller inside on_response's `with self._lock`
LockedPcs == {"or_retry_after", "or_rules", "or_soft"}
\* self._lock can be taken by t: no other caller holds it
LockFree(t) == \A u \in Threads \ {t} : pc[u] \notin LockedPcs

\* What a status read returns, under the name of the property read.
GovernorValue(which) ==
    [w \in {which} |->
        CASE which = "blocked" -> blocked
          [] which = "block_remaining" -> block_remaining
          [] which = "soft_remaining" -> soft_remaining
          [] which = "throttled_remaining" -> throttled_remaining
          [] which = "debug_state" -> debug_state]

\* Variant: the status read does not take the lock.
ReadGovernor_NoLock(t, which) ==
    /\ pc[t] = "idle"
    /\ out' = Call(which, pair[t], GovernorValue(which))
    /\ UNCHANGED <<now, govVars, store, callVars, histVars, db_cache, history, db_snapshots,
                   snap, boot, route>>

\* blocked, block_remaining, soft_remaining, throttled_remaining and
\* debug_state: one `with self._lock` around the whole read.
ReadGovernor(t, which) ==
    /\ pc[t] = "idle"
    /\ LockFree(t)
    /\ out' = Call(which, pair[t], GovernorValue(which))
    /\ UNCHANGED <<now, govVars, store, callVars, histVars, db_cache, history, db_snapshots,
                   snap, boot, route>>

(***************************************************************************)
(* Specifications.                                                         *)
(***************************************************************************)
\* The fetch functions, called concurrently.
Next ==
    \/ Tick
    \/ \E t \in Threads, p \in Pairs, n \in TopNs : FetchWithCache(t, p, n)
    \/ \E t \in Threads, p \in Pairs, n \in TopNs : FetchForce(t, p, n)
    \/ \E t \in Threads : WaitCheck(t)
    \/ \E t \in Threads : WaitWake(t)
    \/ \E t \in Threads, r \in FetchResponses : PostRequest(t, r)
    \/ \E t \in Threads : OnResponse(t)
    \/ \E t \in Threads : BackoffWake(t)
    \/ \E t \in Threads : Summarize(t)
    \/ \E t \in Threads : CacheSet(t)
    \/ \E t \in Threads : Return(t)

Spec == Init /\ [][Next]_vars

\* Concurrent callers of fetch_listings_with_cache alone: no forced fetch,
\* no invalidation, no restart.
NextShared ==
    \/ Tick
    \/ \E t \in Threads, p \in Pairs, n \in TopNs : FetchWithCache(t, p, n)
    \/ \E t \in Threads : WaitCheck(t)
    \/ \E t \in Threads : WaitWake(t)
    \/ \E t \in Threads, r \in FetchResponses : PostRequest(t, r)
    \/ \E t \in Threads : OnResponse(t)
    \/ \E t \in Threads : BackoffWake(t)
    \/ \E t \in Threads : Summarize(t)
    \/ \E t \in Threads : CacheSet(t)
    \/ \E t \in Threads : Return(t)

SpecShared == Init /\ [][NextShared]_vars

\* Concurrent callers of the one Governor: wait_before_request, the upstream
\* request, on_response.
NextGov ==
    \/ Tick
    \/ \E t \in Threads, p \in Pairs : CallPostExchange(t, p)
    \/ \E t \in Threads : WaitCheck(t)
    \/ \E t \in Threads : WaitWake(t)
    \/ \E t \in Threads, r \in GovResponses : PostRequest(t, r)
    \/ \E t \in Threads : OnResponse(t)
    \/ \E t \in Threads : Return(t)
    \/ \E t \in Threads : ReadGovernor(t, "debug_state")

SpecGov == Init /\ [][NextGov]_vars

(***************************************************************************)
(* Callers of the Governor under a fair scheduler.  Calls begin up to      *)
(* MaxTime, so that from some point on no response raises the block any    *)
(* further; the clock goes on while a caller sleeps, and a caller in       *)
(* wait_before_request that can take its step eventually takes it.         *)
(***************************************************************************)
WaitHeaders == {HNone, HRetry2, HFull3, HSoft}
WaitResponses == {Response("response", 200, h, NoBody) : h \in WaitHeaders}

TickWait ==
    /\ \/ now + Quantum <= MaxTime
       \/ \E t \in Threads : pc[t] = "sleep" /\ now < wake[t]
    /\ now' = now + Quantum
    /\ UNCHANGED <<govVars, store, callVars, histVars, db_cache, historyVars>>

NextWait ==
    \/ TickWait
    \/ \E t \in Threads, p \in Pairs : now <= MaxTime /\ CallPostExchange(t, p)
    \/ \E t \in Threads : WaitCheck(t)
    \/ \E t \in Threads : WaitWake(t)
    \/ \E t \in Threads, r \in WaitResponses : PostRequest(t, r)
    \/ \E t \in Threads : OnResponse(t)
    \/ \E t \in Threads : Return(t)

SpecWait ==
    /\ Init /\ [][NextWait]_vars
    /\ WF_vars(TickWait)
    /\ \A t \in Threads : WF_vars(WaitCheck(t)) /\ WF_vars(WaitWake(t))

(***************************************************************************)
(* One caller running one fetch after another, with top_n of 1 and 3 and   *)
(* upstream bodies of 0, 2 and 21 offers.  The clock advances while the    *)
(* caller sleeps or is between two calls, and calls begin up to            *)
(* SeqMaxTime; a caller that can take a step eventually takes it.          *)
(***************************************************************************)
Caller == 1
SeqTopNs == {1, 3}
SeqResponses ==
    FetchResponses
    \cup {Response("response", 500, HNone, NoBody),
          Response("response", 200, HNone, Body(TRUE, ManyOffers))}

TickSeq ==
    /\ \/ pc[Caller] = "idle" /\ now + Quantum <= SeqMaxTime
       \/ pc[Caller] \in {"sleep", "backoff"} /\ now < wake[Caller]
    /\ now' = now + Quantum
    /\ UNCHANGED <<govVars, store, callVars, histVars, db_cache, historyVars>>

NextSeq ==
    \/ TickSeq
    \/ \E p \in Pairs, n \in SeqTopNs : now <= SeqMaxTime /\ FetchWithCache(Caller, p, n)
    \/ \E p \in Pairs, n \in SeqTopNs : now <= SeqMaxTime /\ FetchForce(Caller, p, n)
    \/ WaitCheck(Caller)
    \/ WaitWake(Caller)
    \/ \E r \in SeqResponses : PostRequest(Caller, r)
    \/ OnResponse(Caller)
    \/ BackoffWake(Caller)
    \/ Summarize(Caller)
    \/ CacheSet(Caller)
    \/ Return(Caller)

SpecSeq == Init /\ [][NextSeq]_vars /\ WF_vars(NextSeq)

(***************************************************************************)
(* The TradeCache as an object: its methods called one at a time on two    *)
(* pairs, its write-through to the durable store, and process restarts,    *)
(* each of which builds a new TradeCache from the durable store.           *)
(***************************************************************************)
CachePairs == {"a_b", "c_d"}
CacheData == {<<>>, <<1, 2>>}

CallersIdle ==
    /\ pc = [t \in Threads |-> "idle"]
    /\ op = [t \in Threads |-> "none"]
    /\ pair = [t \in Threads |-> "a_b"]
    /\ top_n = [t \in Threads |-> 0]
    /\ attempt = [t \in Threads |-> 0]
    /\ wake = [t \in Threads |-> 0]
    /\ resp = [t \in Threads |-> NoResponse]
    /\ listings = [t \in Threads |-> <<>>]
    /\ fetched_at = [t \in Threads |-> 0]
    /\ result = [t \in Threads |-> NoResult]
    /\ sent = [t \in Threads |-> 0]
    /\ gov_used = [t \in Threads |-> FALSE]
    /\ raised = [t \in Threads |-> FALSE]
    /\ hit_at_call = [t \in Threads |-> FALSE]
    /\ snap = [t \in Threads |-> NoSnapshot]

GovernorIdle ==
    /\ block_until = 0
    /\ soft_delay_until = 0
    /\ last_rules = <<>>

InitCache ==
    /\ now = 0
    /\ GovernorIdle
    /\ CallersIdle
    /\ store = [p \in CachePairs |-> NoEntry]
    /\ db_cache = [p \in CachePairs |-> NoRow]
    /\ forced = [p \in Pairs |-> NoEntry]
    /\ rewritten = [p \in Pairs |-> FALSE]
    /\ history = [p \in Pairs |-> <<>>]
    /\ db_snapshots = <<>>
    /\ boot = "up"
    /\ out = NoCall
    /\ route = NoRoute

cacheFrame == <<govVars, callVars, histVars, history, db_snapshots, snap, route>>

\* Time passes between two calls.
Pass ==
    /\ out.call = "none"
    /\ Tick

\* The caller has taken the result of its call.
Forget ==
    /\ out.call # "none"
    /\ out' = NoCall
    /\ UNCHANGED <<now, govVars, store, callVars, histVars, db_cache, history,
                   db_snapshots, snap, boot, route>>

\* cache.get(league, have, want)
CallGet(p) ==
    /\ boot = "up" /\ out.call = "none"
    /\ out' = Call("get", p, CacheGet(store, now, p))
    /\ UNCHANGED <<now, store, db_cache, boot, cacheFrame>>

\* cache.set(league, have, want, data, fetched_at=f), f read from the clock
\* by the caller at or before the call
CallSet(p, data, f) ==
    /\ boot = "up" /\ out.call = "none"
    /\ store' = CacheSetTo(store, now, p, data, f)
    /\ db_cache' = save_cache_entry(db_cache, p, data, store'[p].expires_at)
    /\ out' = Call("set", p, [data |-> data, fetched_at |-> f, saved |-> TRUE])
    /\ UNCHANGED <<now, boot, cacheFrame>>

\* cache.invalidate(league, have, want); `out` keeps the entry it found
CallInvalidate(p) ==
    /\ boot = "up" /\ out.call = "none"
    /\ store' = CacheInvalidate(store, p)
    /\ out' = Call("invalidate", p, store[p])
    /\ UNCHANGED <<now, db_cache, boot, cacheFrame>>

\* cache.clear_all(): self._store.clear(); the durable store is not touched.
CallClearAll ==
    /\ boot = "up" /\ out.call = "none"
    /\ store' = [p \in DOMAIN store |-> NoEntry]
    /\ out' = Call("clear_all", "a_b", NoEntry)
    /\ UNCHANGED <<now, db_cache, boot, cacheFrame>>

\* The process restarts: cache = TradeCache(...), whose __init__ starts from
\* an empty _store and runs _load_from_db up to the cleanup.
RestartCache ==
    /\ boot = "up" /\ out.call = "none"
    /\ LET loaded == LoadCacheFromDb(db_cache, now)
       IN  /\ store' = loaded.store
           /\ boot' = IF loaded.failed THEN "up" ELSE "cache_cleanup"
           /\ out' = Call("_load_from_db", "a_b", loaded.failed)
    /\ UNCHANGED <<now, db_cache, cacheFrame>>

\* ... db.cleanup_expired_cache(), the last statement of _load_from_db
CleanupCache ==
    /\ boot = "cache_cleanup"
    /\ db_cache' = cleanup_expired_cache(db_cache, now)
    /\ boot' = "up"
    /\ UNCHANGED <<now, store, out, cacheFrame>>

NextCache ==
    \/ Pass
    \/ Forget
    \/ \E p \in CachePairs : CallGet(p)
    \/ \E p \in CachePairs, data \in CacheData, f \in {now, Max(0, now - Quantum)} :
           CallSet(p, data, f)
    \/ \E p \in CachePairs : CallInvalidate(p)
    \/ CallClearAll
    \/ RestartCache
    \/ CleanupCache

SpecCache == InitCache /\ [][NextCache]_vars

InvalidateStep(p) == out.call = "none" /\ out'.call = "invalidate" /\ out'.pair = p

SetStep(p) == out.call = "none" /\ out'.call = "set" /\ out'.pair = p

RehydrateStep == out.call = "none" /\ out'.call = "_load_from_db"


(***************************************************************************)
(* The HistoricalCache under concurrent request handlers, with the durable *)
(* store and process restarts.  add_snapshot takes no lock: a handler      *)
(* reads the clock, later reads the pair's last snapshot, later appends.   *)
(***************************************************************************)
HistPairs == {"a_b", "c_d"}
HistListings == {<<>>, <<10>>, <<10, 11>>, <<12>>}
\* The calls of add_snapshot: every list for the first pair, one for the other.
SnapInputs == {<<"a_b", ls>> : ls \in HistListings} \cup {<<"c_d", <<12>>>>}

RECURSIVE TotalLen(_, _)
TotalLen(h, ps) ==
    IF ps = {} THEN 0
    ELSE LET p == CHOOSE q \in ps : TRUE IN Len(h[p]) + TotalLen(h, ps \ {p})

\* Snapshots stored or about to be stored.
InHand == TotalLen(history, HistPairs) + Cardinality({t \in Threads : pc[t] # "idle"})

InitHist ==
    /\ now = RetentionTicks
    /\ GovernorIdle
    /\ CallersIdle
    /\ store = [p \in Pairs |-> NoEntry]
    /\ db_cache = [p \in Pairs |-> NoRow]
    /\ forced = [p \in Pairs |-> NoEntry]
    /\ rewritten = [p \in Pairs |-> FALSE]
    /\ history = [p \in HistPairs |-> <<>>]
    /\ db_snapshots = <<>>
    /\ boot = "up"
    /\ out = NoCall
    /\ route = NoRoute

histFrame == <<govVars, store, db_cache, op, top_n, attempt, wake, resp, fetched_at,
               result, sent, gov_used, histVars, route>>

TickHist ==
    /\ now + HistQuantum <= HistMaxTime
    /\ now' = now + HistQuantum
    /\ UNCHANGED <<history, db_snapshots, snap, boot, out, pc, pair, listings, histFrame>>

\* add_snapshot(league, have, want, listings) up to now = datetime.utcnow():
\* nothing is done for an empty list; otherwise the rates are summarised and
\* the clock is read.
SnapCall(t, p, ls) ==
    /\ boot = "up" /\ pc[t] = "idle"
    /\ InHand < MaxSnapshots
    /\ IF ls = <<>>
       THEN /\ out' = Call("add_snapshot", p, "empty")
            /\ UNCHANGED <<pc, pair, snap>>
       ELSE /\ pc' = [pc EXCEPT ![t] = "snap_check"]
            /\ pair' = [pair EXCEPT ![t] = p]
            /\ snap' = [snap EXCEPT ![t] = SnapshotOf(ls, now)]
            /\ out' = out
    /\ UNCHANGED <<now, history, db_snapshots, boot, listings, histFrame>>

\* ... the near-duplicate test against the pair's last snapshot
SnapCheck(t) ==
    /\ boot = "up" /\ pc[t] = "snap_check"
    /\ LET h == history[pair[t]]
       IN  IF h # <<>> /\ IsDuplicate(h[Len(h)], snap[t])
           THEN /\ pc' = [pc EXCEPT ![t] = "idle"]
                /\ snap' = [snap EXCEPT ![t] = NoSnapshot]
                /\ out' = Call("add_snapshot", pair[t], "skipped")
           ELSE /\ pc' = [pc EXCEPT ![t] = "snap_append"]
                /\ UNCHANGED <<snap, out>>
    /\ UNCHANGED <<now, history, db_snapshots, boot, pair, listings, histFrame>>

\* ... self._history[key].append(snapshot), then db.save_snapshot(...)
SnapAppend(t) ==
    /\ boot = "up" /\ pc[t] = "snap_append"
    /\ history' = [history EXCEPT ![pair[t]] = Append(@, snap[t])]
    /\ db_snapshots' = save_snapshot(db_snapshots, pair[t], snap[t])
    /\ pc' = [pc EXCEPT ![t] = "idle"]
    /\ snap' = [snap EXCEPT ![t] = NoSnapshot]
    /\ out' = Call("add_snapshot", pair[t], "appended")
    /\ UNCHANGED <<now, boot, pair, listings, histFrame>>

\* The process restarts, ending the handlers in progress:
\* historical_cache = HistoricalCache(...), whose __init__ starts from an
\* empty _history and runs _load_from_db up to the cleanup.
RestartHist ==
    /\ boot = "up"
    /\ history' = [p \in HistPairs |-> load_all_snapshots(db_snapshots, p, now)]
    /\ pc' = [t \in Threads |-> "idle"]
    /\ snap' = [t \in Threads |-> NoSnapshot]
    /\ boot' = "hist_purge"
    /\ out' = Call("_load_from_db", "a_b", "loaded")
    /\ UNCHANGED <<now, db_snapshots, pair, listings, histFrame>>

\* ... db.cleanup_old_snapshots(self.retention_hours), which reads the clock
\* again for its own cutoff
PurgeHist ==
    /\ boot = "hist_purge"
    /\ db_snapshots' = cleanup_old_snapshots(db_snapshots, now)
    /\ boot' = "up"
    /\ out' = Call("cleanup_old_snapshots", "a_b", Len(db_snapshots) - Len(db_snapshots'))
    /\ UNCHANGED <<now, history, snap, pc, pair, listings, histFrame>>

NextHist ==
    \/ TickHist
    \/ \E t \in Threads, in \in SnapInputs : SnapCall(t, in[1], in[2])
    \/ \E t \in Threads : SnapCheck(t)
    \/ \E t \in Threads : SnapAppend(t)
    \/ RestartHist
    \/ PurgeHist

SpecHist == InitHist /\ [][NextHist]_vars

SnapCheckStep(t) == boot' = "up" /\ pc[t] = "snap_check" /\ pc'[t] # "snap_check"

SnapAppendStep(t) == boot' = "up" /\ pc[t] = "snap_append" /\ pc'[t] = "idle"

HistLoadStep == boot = "up" /\ boot' = "hist_purge"

HistPurgeStep == boot = "hist_purge" /\ boot' = "up"


(***************************************************************************)
(* get_history and get_trend, applied to histories of every length up to   *)
(* MaxHistory: snapshots one HistQuantum apart in timestamp order, the     *)
(* first `old` of them older than the 7-day window and the next one        *)
(* exactly on its edge, with medians of several shapes; the durable store   *)
(* holds the row of every snapshot.                                        *)
(***************************************************************************)
Shapes == {"flat", "rise", "fall", "edge_up", "edge_down", "just_up", "third", "zero", "ramp",
           "spike"}

\* The median (doubled) of the i-th of n snapshots.
ShapeMedian(shape, i, n) ==
    LET first == 2 * i <= n
    IN  CASE shape = "flat" -> 200
          [] shape = "rise" -> IF first THEN 200 ELSE 220
          [] shape = "fall" -> IF first THEN 220 ELSE 200
          [] shape = "edge_up" -> IF first THEN 200 ELSE 204
          [] shape = "edge_down" -> IF first THEN 200 ELSE 196
          [] shape = "just_up" -> IF first THEN 2000 ELSE 2041
          [] shape = "third" -> IF first THEN 6 ELSE 8
          [] shape = "zero" -> IF first THEN 0 ELSE 10
          [] shape = "spike" -> IF i = n - 1 THEN 400 ELSE IF i = n THEN 300 ELSE 200
          [] OTHER -> 2 * i

QueryTimestamp(i) == i * HistQuantum

QueryHistory(n, shape) ==
    [i \in 1..n |-> PriceSnapshot(QueryTimestamp(i), ShapeMedian(shape, i, n) + 1, <<1, 1>>,
                                  ShapeMedian(shape, i, n), 1)]

OldCounts == {0, 2}
\* max_points as the route passes it on: None (-1), 0, or a positive count
QueryPoints == {-1, 0, 1, 4, 30}

InitQuery ==
    /\ \E n \in 0..MaxHistory, shape \in Shapes, old \in OldCounts :
          /\ history = [p \in Pairs |-> QueryHistory(n, shape)]
          /\ now = WindowTicks + QueryTimestamp(old + 1)
    /\ GovernorIdle
    /\ CallersIdle
    /\ store = [p \in Pairs |-> NoEntry]
    /\ db_cache = [p \in Pairs |-> NoRow]
    /\ forced = [p \in Pairs |-> NoEntry]
    /\ rewritten = [p \in Pairs |-> FALSE]
    /\ db_snapshots = [i \in 1..Len(history["a_b"]) |-> SnapshotRow("a_b", history["a_b"][i])]
    /\ boot = "up"
    /\ out = NoCall
    /\ route = NoRoute

queryFrame == <<now, govVars, store, callVars, histVars, db_cache, history, db_snapshots,
                snap, boot, route>>

\* historical_cache.get_history(league, have, want, max_points); `out` keeps
\* max_points beside the points returned
CallGetHistory(p, max_points, low) ==
    /\ out' = Call("get_history", p,
                   [max_points |-> max_points,
                    points |-> get_history(history[p], now, max_points, low)])
    /\ UNCHANGED queryFrame

\* Variant: get_trend keeps the filtered list as the pair's history.
CallGetTrend_InPlace(p, low) ==
    /\ out' = Call("get_trend", p, get_trend(history[p], now, low))
    /\ history' = [history EXCEPT ![p] = InWindow(history[p], now)]
    /\ UNCHANGED <<now, govVars, store, callVars, histVars, db_cache, db_snapshots, snap, boot, route>>

\* historical_cache.get_trend(league, have, want)
CallGetTrend(p, low) ==
    /\ out' = Call("get_trend", p, get_trend(history[p], now, low))
    /\ UNCHANGED queryFrame

NextQuery ==
    \/ \E p \in Pairs, max_points \in QueryPoints, low \in {0, 1} :
           CallGetHistory(p, max_points, low)
    \/ \E p \in Pairs, low \in {0, 1} : CallGetTrend(p, low)

SpecQuery == InitQuery /\ [][NextQuery]_vars


(***************************************************************************)
(* The cache and the history with a durable store whose writes can fail:   *)
(* save_cache_entry and save_snapshot catch every exception, log it and    *)
(* return False, leaving the table as it was.  One caller sets and gets    *)
(* cache entries and records and reads snapshots of one pair, the clock    *)
(* going on until an entry set at the start has expired.                   *)
(***************************************************************************)
TickWrite ==
    /\ out.call = "none" /\ pc[Caller] = "idle"
    /\ now + Quantum <= RetentionTicks + TTLTicks
    /\ now' = now + Quantum
    /\ UNCHANGED <<govVars, store, callVars, histVars, db_cache, historyVars>>

\* Variant: the failed write ends set before the entry is stored.
CallSetUnsaved_WriteFirst(p, data, f) ==
    /\ boot = "up" /\ out.call = "none" /\ pc[Caller] = "idle"
    /\ out' = Call("set", p, [data |-> data, fetched_at |-> f, saved |-> FALSE])
    /\ UNCHANGED <<now, store, db_cache, boot, cacheFrame>>

\* cache.set(league, have, want, data, fetched_at=f) when db.save_cache_entry
\* fails: the entry is stored, the write returns False, set returns
CallSetUnsaved(p, data, f) ==
    /\ boot = "up" /\ out.call = "none" /\ pc[Caller] = "idle"
    /\ store' = CacheSetTo(store, now, p, data, f)
    /\ out' = Call("set", p, [data |-> data, fetched_at |-> f, saved |-> FALSE])
    /\ UNCHANGED <<now, db_cache, boot, cacheFrame>>

\* ... self._history[key].append(snapshot), then db.save_snapshot(...) fails
\* and returns False
SnapAppendUnsaved(t) ==
    /\ boot = "up" /\ pc[t] = "snap_append"
    /\ history' = [history EXCEPT ![pair[t]] = Append(@, snap[t])]
    /\ pc' = [pc EXCEPT ![t] = "idle"]
    /\ snap' = [snap EXCEPT ![t] = NoSnapshot]
    /\ out' = Call("add_snapshot", pair[t], "unsaved")
    /\ UNCHANGED <<now, db_snapshots, boot, pair, listings, histFrame>>

NextWrite ==
    \/ TickWrite
    \/ Forget
    \/ \E p \in Pairs : pc[Caller] = "idle" /\ CallGet(p)
    \/ \E p \in Pairs, data \in CacheData :
           pc[Caller] = "idle" /\ CallSet(p, data, now)
    \/ \E p \in Pairs, data \in CacheData : CallSetUnsaved(p, data, now)
    \/ \E ls \in HistListings : out.call = "none" /\ SnapCall(Caller, "a_b", ls)
    \/ SnapCheck(Caller)
    \/ SnapAppend(Caller)
    \/ SnapAppendUnsaved(Caller)
    \/ \E p \in HistPairs :
           boot = "up" /\ out.call = "none" /\ pc[Caller] = "idle" /\ CallGetHistory(p, -1, 0)

SpecWrite == InitHist /\ [][NextWrite]_vars


(***************************************************************************)
(* The history of one pair and its durable store under one caller, with    *)
(* writes that succeed: add_snapshot, clear_all and restarts, one after    *)
(* the other.                                                              *)
(***************************************************************************)
\* HistoricalCache.clear_all: self._history.clear(); the durable store is
\* not touched.
HistClearAll ==
    /\ boot = "up" /\ pc[Caller] = "idle"
    /\ history' = [p \in HistPairs |-> <<>>]
    /\ out' = Call("clear_all", "a_b", "cleared")
    /\ UNCHANGED <<now, db_snapshots, snap, boot, pc, pair, listings, histFrame>>

NextStore ==
    \/ pc[Caller] = "idle" /\ TickHist
    \/ \E ls \in HistListings :
           Len(db_snapshots) <= MaxSnapshots /\ SnapCall(Caller, "a_b", ls)
    \/ SnapCheck(Caller)
    \/ SnapAppend(Caller)
    \/ HistClearAll
    \/ pc[Caller] = "idle" /\ RestartHist
    \/ PurgeHist

SpecStore == InitHist /\ [][NextStore]_vars

(***************************************************************************)
(* The trade routes: the streamed and the whole-list refresh of            *)
(* cfg.trades, as main.py serves them and as services/trade_service.py     *)
(* writes them.  One request is served at a time; its fetches are the      *)
(* fetch functions above, run by the one caller.  The consumer of a        *)
(* stream may disconnect at any moment.  Requests arrive up to             *)
(* RouteMaxTime.                                                           *)
(***************************************************************************)
Trades == <<"a_b", "c_d">>
RoutePairs == {Trades[i] : i \in 1..Len(Trades)}
RouteTopN == 5
DelayTicks == 2 * TicksPerSecond

MainHandlers == {"stream_trades", "refresh_cache_all"}
ServiceHandlers == {"stream_trades_service", "refresh_cache_all_service"}
Handlers == MainHandlers \cup ServiceHandlers
IsStream(h) == h \in {"stream_trades", "stream_trades_service"}

\* What the route did for one pair: the status of its PairSummary
\* ("raised" when the handler raised instead), the Governor's blocked at the
\* start of the iteration, whether a fetch was called, what it returned and
\* how many upstream requests it issued, and whether add_snapshot was called.
PairResult(p, status, blocked_at_call, fetched, r, requests, add_snapshot) ==
    [pair |-> p, status |-> status, blocked_at_call |-> blocked_at_call,
     fetched |-> fetched, ok |-> r.ok, listed |-> r.listings # <<>>,
     was_cached |-> r.was_cached, requests |-> requests, add_snapshot |-> add_snapshot]

InitRoute ==
    /\ now = 0
    /\ GovernorIdle
    /\ CallersIdle
    /\ store = [p \in RoutePairs |-> NoEntry]
    /\ db_cache = [p \in RoutePairs |-> NoRow]
    /\ forced = [p \in RoutePairs |-> NoEntry]
    /\ rewritten = [p \in RoutePairs |-> FALSE]
    /\ history = [p \in RoutePairs |-> <<>>]
    /\ db_snapshots = <<>>
    /\ boot = "up"
    /\ out = NoCall
    /\ route = NoRoute

routeFrame == <<now, govVars, store, callVars, histVars, db_cache, history, db_snapshots,
                snap, boot, out>>

TickRoute ==
    /\ \/ route.at = "idle" /\ now + Quantum <= RouteMaxTime
       \/ pc[Caller] \in {"sleep", "backoff"} /\ now < wake[Caller]
       \/ route.at = "pause" /\ now < route.wake
    /\ now' = now + Quantum
    /\ UNCHANGED <<govVars, store, callVars, histVars, db_cache, historyVars>>

\* A request arrives: cfg = load_config() and the loop over cfg.trades begins.
RouteCall(h, force) ==
    /\ route.at = "idle" /\ pc[Caller] = "idle"
    /\ now <= RouteMaxTime
    /\ route' = [NoRoute EXCEPT !.handler = h, !.force = force, !.idx = 1, !.at = "loop"]
    /\ UNCHANGED routeFrame

\* The consumer of the stream goes away.
Disconnect ==
    /\ IsStream(route.handler)
    /\ route.at \in {"loop", "call", "pause"}
    /\ route.connected
    /\ route' = [route EXCEPT !.connected = FALSE]
    /\ UNCHANGED routeFrame

\* The loop is over: every pair was served, or main.py's stream found
\* request.is_disconnected() and broke out.
RouteEnd ==
    /\ route.at = "loop"
    /\ \/ route.idx > Len(Trades)
       \/ route.handler = "stream_trades" /\ ~route.connected
    /\ route' = [route EXCEPT !.at = "ended"]
    /\ UNCHANGED routeFrame

\* The step to the next pair: the stream sleeps delay_s first unless the
\* listings came from the cache.
AfterPair(h, was_cached) ==
    IF IsStream(h) /\ ~was_cached
    THEN [route EXCEPT !.at = "pause", !.wake = now + DelayTicks, !.was_cached = was_cached]
    ELSE [route EXCEPT !.at = "loop", !.idx = @ + 1, !.was_cached = was_cached]

\* main.py, rate_limiter.blocked is true: the pair's summary says
\* "rate_limited" and no fetch is called.
RouteLimited ==
    /\ route.at = "loop" /\ route.idx <= Len(Trades)
    /\ route.handler \in MainHandlers
    /\ route.handler = "stream_trades" => route.connected
    /\ blocked
    /\ route' = [AfterPair(route.handler, FALSE) EXCEPT
                   !.results = Append(@, PairResult(Trades[route.idx], "rate_limited", TRUE,
                                                     FALSE, NoResult, 0, FALSE))]
    /\ UNCHANGED routeFrame

\* The route goes on to the fetch of the pair: main.py after it found the
\* consumer connected and the Governor not blocked, the service at once.
RouteIter ==
    /\ route.at = "loop" /\ route.idx <= Len(Trades)
    /\ route.handler \in MainHandlers
       => /\ route.handler = "stream_trades" => route.connected
          /\ ~blocked
    /\ route' = [route EXCEPT !.at = "call", !.blocked_at_call = blocked]
    /\ UNCHANGED routeFrame

\* fetch_listings_force or fetch_listings_with_cache for the pair
RouteFetch ==
    /\ route.at = "call"
    /\ IF route.force
       THEN FetchForce(Caller, Trades[route.idx], RouteTopN)
       ELSE FetchWithCache(Caller, Trades[route.idx], RouteTopN)

\* HistoricalCache.add_snapshot as one step of the one caller
AddSnapshot(h, ls, t) ==
    IF ls = <<>> THEN h
    ELSE IF h # <<>> /\ IsDuplicate(h[Len(h)], SnapshotOf(ls, t)) THEN h
    ELSE Append(h, SnapshotOf(ls, t))

\* The caller's variables after its fetch has returned.
CallerFree ==
    /\ pc' = [pc EXCEPT ![Caller] = "idle"]
    /\ op' = [op EXCEPT ![Caller] = "none"]
    /\ top_n' = [top_n EXCEPT ![Caller] = 0]
    /\ attempt' = [attempt EXCEPT ![Caller] = 0]
    /\ wake' = [wake EXCEPT ![Caller] = 0]
    /\ resp' = [resp EXCEPT ![Caller] = NoResponse]
    /\ listings' = [listings EXCEPT ![Caller] = <<>>]
    /\ fetched_at' = [fetched_at EXCEPT ![Caller] = 0]
    /\ result' = [result EXCEPT ![Caller] = NoResult]
    /\ sent' = [sent EXCEPT ![Caller] = 0]
    /\ gov_used' = [gov_used EXCEPT ![Caller] = FALSE]
    /\ raised' = [raised EXCEPT ![Caller] = FALSE]
    /\ hit_at_call' = [hit_at_call EXCEPT ![Caller] = FALSE]
    /\ UNCHANGED <<pair, forced, rewritten>>

\* main.py after the fetch: "error" for listings None; otherwise
\* add_snapshot if not was_cached and listings, get_trend, and "ok".
RouteResultMain ==
    /\ route.at = "call" /\ pc[Caller] = "done"
    /\ route.handler \in MainHandlers
    /\ LET r == result[Caller]
           p == Trades[route.idx]
           add == r.ok /\ ~r.was_cached /\ r.listings # <<>>
       IN  /\ history' = IF add THEN [history EXCEPT ![p] = AddSnapshot(@, r.listings, now)]
                         ELSE history
           /\ db_snapshots' = IF history'[p] # history[p]
                              THEN save_snapshot(db_snapshots, p, SnapshotOf(r.listings, now))
                              ELSE db_snapshots
           /\ route' = [AfterPair(route.handler, r.was_cached) EXCEPT
                          !.results = Append(@, PairResult(p, IF r.ok THEN "ok" ELSE "error",
                                                            route.blocked_at_call, TRUE, r,
                                                            sent[Caller], add))]
    /\ CallerFree
    /\ UNCHANGED <<now, govVars, store, db_cache, snap, boot, out>>

\* services/trade_service.py after the fetch: `if listings:` it calls
\* historical_cache.add_snapshot(..., listings, top_n=top_n), a keyword that
\* add_snapshot does not take, so the call raises TypeError and the handler
\* ends; with no listings the summary says "error".
RouteResultService ==
    /\ route.at = "call" /\ pc[Caller] = "done"
    /\ route.handler \in ServiceHandlers
    /\ LET r == result[Caller]
           p == Trades[route.idx]
           add == r.ok /\ r.listings # <<>>
       IN  route' = IF add
                    THEN [route EXCEPT
                            !.at = "ended", !.raised = "TypeError", !.was_cached = r.was_cached,
                            !.results = Append(@, PairResult(p, "raised", route.blocked_at_call,
                                                              TRUE, r, sent[Caller], TRUE))]
                    ELSE [AfterPair(route.handler, r.was_cached) EXCEPT
                            !.results = Append(@, PairResult(p, "error", route.blocked_at_call,
                                                              TRUE, r, sent[Caller], FALSE))]
    /\ CallerFree
    /\ UNCHANGED <<now, govVars, store, db_cache, history, db_snapshots, snap, boot, out>>

\* await asyncio.sleep(delay_s) is over
RouteResume ==
    /\ route.at = "pause" /\ now >= route.wake
    /\ route' = [route EXCEPT !.at = "loop", !.idx = @ + 1]
    /\ UNCHANGED routeFrame

\* The response has been delivered, or the exception has.
RouteClose ==
    /\ route.at = "ended"
    /\ route' = NoRoute
    /\ UNCHANGED routeFrame

NextRoute ==
    \/ TickRoute
    \/ \E h \in Handlers, force \in BOOLEAN : (force => IsStream(h)) /\ RouteCall(h, force)
    \/ Disconnect
    \/ RouteEnd
    \/ RouteLimited
    \/ RouteIter
    \/ RouteFetch
    \/ WaitCheck(Caller)
    \/ WaitWake(Caller)
    \/ \E r \in FetchResponses : PostRequest(Caller, r)
    \/ OnResponse(Caller)
    \/ BackoffWake(Caller)
    \/ Summarize(Caller)
    \/ CacheSet(Caller)
    \/ RouteResultMain
    \/ RouteResultService
    \/ RouteResume
    \/ RouteClose

SpecRoute == InitRoute /\ [][NextRoute]_vars


(***************************************************************************)
(* The Governor's lock.  on_response runs as the steps of its body, all    *)
(* under self._lock; wait_before_request's check and the status reads take *)
(* the same lock.  A body under the lock is shorter than a tick of the     *)
(* clock.                                                                  *)
(***************************************************************************)
LockHeaders == {HNone, HRetry2, HFull1, HSoft}
LockResponses == {Response("response", 200, h, NoBody) : h \in LockHeaders}
GovernorReads == {"blocked", "block_remaining", "soft_remaining", "throttled_remaining", "debug_state"}

lockFrame == <<db_cache, history, db_snapshots, snap, boot, route, store, op, pair, top_n,
               attempt, wake, resp, listings, fetched_at, result, sent, gov_used, forced,
               rewritten, hit_at_call>>

TickLock ==
    /\ \A t \in Threads : pc[t] \notin LockedPcs
    /\ Tick

\* on_response takes the lock and resets the soft delay and the last rules.
OnResponseBegin(t) ==
    /\ pc[t] = "on_response"
    /\ LockFree(t)
    /\ soft_delay_until' = 0
    /\ last_rules' = <<>>
    /\ pc' = [pc EXCEPT ![t] = "or_retry_after"]
    /\ UNCHANGED <<now, block_until, raised, out, lockFrame>>

\* the Retry-After header
OnResponseRetryAfter(t) ==
    /\ pc[t] = "or_retry_after"
    /\ block_until' = RetryAfterBlock(resp[t].headers, now, block_until)
    /\ raised' = [u \in Threads |->
                    IF u # t /\ pc[u] \in {"wait", "sleep"} /\ block_until' > block_until
                    THEN TRUE ELSE raised[u]]
    /\ pc' = [pc EXCEPT ![t] = "or_rules"]
    /\ UNCHANGED <<now, soft_delay_until, last_rules, out, lockFrame>>

\* the loop over rule_names: the parsed triples and the hard block
OnResponseRules(t) ==
    /\ pc[t] = "or_rules"
    /\ last_rules' = LastRulesOf[resp[t].headers]
    /\ block_until' = HardBlock(last_rules', now, block_until)
    /\ raised' = [u \in Threads |->
                    IF u # t /\ pc[u] \in {"wait", "sleep"} /\ block_until' > block_until
                    THEN TRUE ELSE raised[u]]
    /\ pc' = [pc EXCEPT ![t] = "or_soft"]
    /\ UNCHANGED <<now, soft_delay_until, out, lockFrame>>

\* the soft throttle; the lock is released and _post_exchange goes on to
\* its status checks
OnResponseSoft(t) ==
    /\ pc[t] = "or_soft"
    /\ LET soft_sleep == SoftSleep(last_rules, 0)
       IN  soft_delay_until' = IF soft_sleep > 0 THEN now + soft_sleep ELSE 0
    /\ AttemptFailed(t)
    /\ UNCHANGED <<now, block_until, last_rules, raised, out, db_cache, history, db_snapshots,
                   snap, boot, route, store, op, pair, top_n, listings, fetched_at, sent,
                   gov_used, forced, rewritten, hit_at_call>>

NextLock ==
    \/ TickLock
    \/ \E t \in Threads, p \in Pairs : CallPostExchange(t, p)
    \/ \E t \in Threads : LockFree(t) /\ WaitCheck(t)
    \/ \E t \in Threads : WaitWake(t)
    \/ \E t \in Threads, r \in LockResponses : PostRequest(t, r)
    \/ \E t \in Threads : OnResponseBegin(t)
    \/ \E t \in Threads : OnResponseRetryAfter(t)
    \/ \E t \in Threads : OnResponseRules(t)
    \/ \E t \in Threads : OnResponseSoft(t)
    \/ \E t \in Threads, which \in GovernorReads : ReadGovernor(t, which)
    \/ \E t \in Threads : Return(t)

SpecLock == Init /\ [][NextLock]_vars

(***************************************************************************)
(* Steps of a caller, as seen in a pair of states.                         *)
(***************************************************************************)
\* t runs the cache lookup of fetch_listings_with_cache in this step
LookupStep(t) == pc[t] = "idle" /\ op'[t] = "with_cache"
\* t enters fetch_listings_force in this step
ForceStep(t) == pc[t] = "idle" /\ op'[t] = "force"
\* t issues its upstream request in this step
RequestStep(t) == pc[t] = "post" /\ pc'[t] # "post"
\* t runs on_response in this step
OnResponseStep(t) == pc[t] = "on_response" /\ pc'[t] # "on_response"
\* wait_before_request returns to t in this step
WaitReturnStep(t) == pc[t] \in {"wait", "sleep"} /\ pc'[t] = "post"

(***************************************************************************)
(* Properties.                                                             *)
(***************************************************************************)

\* C1: when fetch_listings_with_cache finds an unexpired entry it returns
\* (the first top_n cached listings, was_cached = TRUE, the entry's
\* fetched_at) in that step, without any Governor call, without an upstream
\* request, and with block_until, soft_delay_until and last_rules unchanged.
C1_HitLeavesGovernorAlone ==
    [][\A t \in Threads :
         (LookupStep(t) /\ store[pair'[t]].present /\ now < store[pair'[t]].expires_at)
         => /\ pc'[t] = "done"
            /\ result'[t] = Result(TRUE, Take(store[pair'[t]].data, top_n'[t]), TRUE,
                                   store[pair'[t]].fetched_at)
            /\ sent'[t] = 0
            /\ ~gov_used'[t]
            /\ UNCHANGED govVars]_vars

\* a hit was returned while the Governor was hard-blocked and held parsed rules
C1_Witness ==
    \E t \in Threads :
        /\ pc[t] = "done" /\ op[t] = "with_cache" /\ result[t].was_cached
        /\ blocked /\ last_rules # <<>>

\* C2 (as claimed): no upstream request is issued while now < block_until.
C2_NoRequestWhileBlocked ==
    [][\A t \in Threads : RequestStep(t) => ~blocked]_vars

\* C3: after on_response, every triple parsed from a consulted state header
\* with current >= limit and reset_s > 0 has block_until >= now + reset_s,
\* and the Governor is blocked; in particular for the header "6:5:3".
C3_FullRuleBlocks ==
    [][\A t \in Threads :
         OnResponseStep(t)
         => LET rules == ParsedRules(resp[t].headers)
            IN  /\ \A i \in 1..Len(rules) :
                     (rules[i].current >= rules[i].limit /\ rules[i].reset_s > 0)
                     => /\ block_until' >= now + rules[i].reset_s * TicksPerSecond
                        /\ now' < block_until'
                /\ resp[t].headers = HFull3 => block_until' >= now + 3 * TicksPerSecond
                /\ resp[t].headers = HFull1 => block_until' >= now + TicksPerSecond]_vars

\* the last response carried a rule exactly at its limit and the Governor is blocked
C3_Witness ==
    /\ blocked
    /\ \E i \in 1..Len(last_rules) :
          last_rules[i].current = last_rules[i].limit /\ last_rules[i].reset_s > 0

\* C4: block_until never decreases, whatever the step.
C4_BlockNeverShrinks == [][block_until' >= block_until]_vars

\* a block outlived a later response that carried no blocking condition
C4_Witness ==
    /\ blocked
    /\ last_rules = <<RuleState("Ip", 45, 300, 3)>>

\* C5 (as claimed): on_response with the state header "45:300:3" on a
\* Governor that is not blocked leaves it blocked.
C5_Header45Blocks ==
    [][\A t \in Threads :
         (OnResponseStep(t) /\ resp[t].headers = H45 /\ ~blocked) => now' < block_until']_vars

\* C6: after on_response with a Retry-After of a positive integer n,
\* block_until >= now + n and the Governor is blocked, whatever the
\* rule-state headers are.
C6_RetryAfterBlocks ==
    [][\A t \in Threads :
         OnResponseStep(t)
         => LET ra == ParseInt(resp[t].headers.retry_after)
            IN  /\ (ra.ok /\ ra.val > 0)
                   => /\ block_until' >= now + ra.val * TicksPerSecond
                      /\ now' < block_until'
                /\ resp[t].headers = HRetry2 => block_until' >= now + 2 * TicksPerSecond
                /\ resp[t].headers = HRetry1 => block_until' >= now + TicksPerSecond]_vars

\* blocked after a Retry-After that came with a malformed state header and
\* one below its limit
C6_Witness ==
    /\ blocked
    /\ last_rules = <<RuleState("Account", 1, 5, 10)>>

\* C7: wait_before_request returns only from a check with
\* now >= max(block_until, soft_delay_until), also after a concurrent
\* on_response raised the block; no sleep is longer than 2 s.
C7_WaitHonoursBlock ==
    [][\A t \in Threads :
         /\ WaitReturnStep(t) => now >= Max(block_until, soft_delay_until)
         /\ (pc[t] = "wait" /\ pc'[t] = "sleep")
            => (wake'[t] > now /\ wake'[t] - now <= SleepCapTicks)]_vars

\* a caller came out of wait_before_request after the block was raised under it
C7_Witness ==
    \E t \in Threads : pc[t] = "post" /\ raised[t]

\* C8: fetch_listings_force reports was_cached = FALSE on every outcome and
\* returns only after at least one upstream request; entering it removes the
\* pair's entry, unexpired or not, and leads to the upstream call.
C8_ForceNeverCached ==
    /\ [](\A t \in Threads :
            (op[t] = "force" /\ pc[t] = "done")
            => (result[t].returned /\ ~result[t].was_cached /\ sent[t] >= 1))
    /\ [][\A t \in Threads :
            ForceStep(t) => (~store'[pair'[t]].present /\ pc'[t] = "wait")]_vars

\* a forced fetch that began on an unexpired entry has returned, not from the cache
C8_Witness ==
    \E t \in Threads :
        /\ op[t] = "force" /\ pc[t] = "done" /\ hit_at_call[t]
        /\ ~result[t].was_cached /\ sent[t] >= 1

\* a forced fetch has failed after all its attempts
C8_FailureReached ==
    \E t \in Threads :
        op[t] = "force" /\ pc[t] = "done" /\ ~result[t].ok /\ sent[t] = Retries + 1

\* C9 (as claimed): a fetch_listings_with_cache lookup made after a successful
\* forced fetch of the pair, before that entry's expiry and with no forced
\* fetch, invalidate or clear of the pair in between, returns was_cached =
\* TRUE with the listings and fetched_at the forced fetch wrote, and issues
\* no upstream request.
C9_ForcedThenCached ==
    [][\A t \in Threads :
         (LookupStep(t) /\ forced[pair'[t]].present /\ now < forced[pair'[t]].expires_at)
         => /\ pc'[t] = "done"
            /\ result'[t] = Result(TRUE, Take(forced[pair'[t]].data, top_n'[t]), TRUE,
                                   forced[pair'[t]].fetched_at)
            /\ sent'[t] = 0]_vars

\* C9 (amended): the same, provided also that no other fetch has written the
\* pair's entry since the forced fetch wrote it.
C9_ForcedThenCachedUnlessRewritten ==
    [][\A t \in Threads :
         (/\ LookupStep(t)
          /\ forced[pair'[t]].present
          /\ ~rewritten[pair'[t]]
          /\ now < forced[pair'[t]].expires_at)
         => /\ pc'[t] = "done"
            /\ result'[t] = Result(TRUE, Take(forced[pair'[t]].data, top_n'[t]), TRUE,
                                   forced[pair'[t]].fetched_at)
            /\ sent'[t] = 0]_vars

\* a cached fetch returned what the last forced fetch wrote, with more
\* listings in the entry than the caller asked for
C9_Witness ==
    \E t \in Threads :
        /\ pc[t] = "done" /\ op[t] = "with_cache" /\ result[t].was_cached
        /\ forced[pair[t]].present /\ ~rewritten[pair[t]]
        /\ result[t].fetched_at = forced[pair[t]].fetched_at
        /\ result[t].listings = Take(forced[pair[t]].data, top_n[t])
        /\ Len(forced[pair[t]].data) > top_n[t]

\* C10: the lookup hits exactly when the pair has an entry with
\* now < expires_at, the hit carries that entry's listings and fetched_at, a
\* miss goes on to the upstream call, and the store is the same afterwards.
C10_GetExact ==
    [][\A t \in Threads :
         LookupStep(t)
         => LET e == store[pair'[t]]
            IN  /\ (pc'[t] = "done") <=> (e.present /\ now < e.expires_at)
                /\ hit_at_call'[t] <=> (e.present /\ now < e.expires_at)
                /\ pc'[t] = "done"
                   => /\ result'[t].was_cached
                      /\ result'[t].listings = Take(e.data, top_n'[t])
                      /\ result'[t].fetched_at = e.fetched_at
                /\ pc'[t] # "done" => (pc'[t] = "wait" /\ ~result'[t].returned)
                /\ store' = store]_vars

\* a lookup missed on an entry that had expired at that very instant, and
\* the entry is still in the store
C10_Witness ==
    \E t \in Threads :
        /\ op[t] = "with_cache" /\ pc[t] = "wait" /\ attempt[t] = 0 /\ ~hit_at_call[t]
        /\ store[pair[t]].present /\ store[pair[t]].expires_at = now

\* C11: after invalidate(pair) a get of the pair misses, and keeps missing
\* until the pair is set again; invalidating an absent pair changes nothing,
\* and no other pair's entry changes.
C11_InvalidateThenMiss ==
    [][\A p \in CachePairs :
          /\ InvalidateStep(p) =>
                /\ ~CacheGet(store', now', p).hit
                /\ \A q \in CachePairs \ {p} : store'[q] = store[q]
                /\ (~store[p].present => store' = store)
          /\ (~store[p].present /\ ~SetStep(p)) =>
                (~store'[p].present /\ ~CacheGet(store', now', p).hit)]_vars

\* An unexpired entry has just been invalidated while the other pair holds one.
C11_Witness ==
    /\ out.call = "invalidate"
    /\ out.value.present /\ now < out.value.expires_at
    /\ ~store[out.pair].present
    /\ \E q \in CachePairs \ {out.pair} : store[q].present

\* C12: every entry in memory has expires_at = fetched_at + TTL.
C12_ExpiryIsFetchedPlusTTL ==
    \A p \in DOMAIN store :
        store[p].present => store[p].expires_at = store[p].fetched_at + TTLTicks

\* C13: a restart brings back every entry of the durable store that has not
\* expired, with its listings, and none that has expired.
C13_RestartKeepsUnexpired ==
    [][RehydrateStep =>
          \A p \in CachePairs :
              IF db_cache[p].present /\ now < fromisoformat(db_cache[p].expires_at)
              THEN /\ CacheGet(store', now', p).hit
                   /\ CacheGet(store', now', p).data =
                          [i \in 1..Len(db_cache[p].listings_json) |->
                              ListingFromJson(db_cache[p].listings_json[i])]
              ELSE ~store'[p].present]_vars

\* The rows of pair p that a restart at time t is to bring back: those whose
\* timestamp lies within the retention window.
RowsInWindow(tbl, p, t) ==
    SelectSeq(tbl, LAMBDA row : row.pair = p /\ fromisoformat(row.timestamp) > t - RetentionTicks)

SameSnapshots(h, rows) ==
    /\ Len(h) = Len(rows)
    /\ \A x \in {h[i] : i \in 1..Len(h)} \cup {RowSnapshot(rows[i]) : i \in 1..Len(rows)} :
          Cardinality({i \in 1..Len(h) : h[i] = x})
              = Cardinality({i \in 1..Len(rows) : RowSnapshot(rows[i]) = x})

Ascending(h) == \A i \in 1..(Len(h) - 1) : h[i].timestamp <= h[i + 1].timestamp

\* C14: a restart loads, for each pair, exactly the persisted snapshots
\* within the retention window, in ascending timestamp order; the purge
\* removes the rows older than the window and none that was loaded.
C14_RestartRoundTrip ==
    [][/\ HistLoadStep =>
             \A p \in HistPairs :
                 /\ SameSnapshots(history'[p], RowsInWindow(db_snapshots, p, now))
                 /\ Ascending(history'[p])
       /\ HistPurgeStep =>
             /\ \A i \in 1..Len(db_snapshots') :
                    fromisoformat(db_snapshots'[i].timestamp) > now - RetentionTicks
             /\ \A p \in HistPairs : \A i \in 1..Len(history[p]) :
                    \E j \in 1..Len(db_snapshots') :
                        /\ db_snapshots'[j].pair = p
                        /\ RowSnapshot(db_snapshots'[j]) = history[p][i]]_vars

\* C14, amended: as above, except that the purge, which computes its cutoff
\* from its own later reading of the clock, keeps every loaded snapshot that
\* is still within the retention window at that reading.
C14_RestartRoundTripOwnCutoff ==
    [][/\ HistLoadStep =>
             \A p \in HistPairs :
                 /\ SameSnapshots(history'[p], RowsInWindow(db_snapshots, p, now))
                 /\ Ascending(history'[p])
       /\ HistPurgeStep =>
             /\ \A i \in 1..Len(db_snapshots') :
                    fromisoformat(db_snapshots'[i].timestamp) > now - RetentionTicks
             /\ \A p \in HistPairs : \A i \in 1..Len(history[p]) :
                    history[p][i].timestamp > now - RetentionTicks =>
                        \E j \in 1..Len(db_snapshots') :
                            /\ db_snapshots'[j].pair = p
                            /\ RowSnapshot(db_snapshots'[j]) = history[p][i]]_vars

\* A restart has loaded two snapshots of a pair and purged an older row.
C14_Witness ==
    /\ out.call = "cleanup_old_snapshots" /\ out.value >= 1
    /\ \E p \in HistPairs : Len(history[p]) >= 2

C16_TimestampsNonDecreasing == \A p \in DOMAIN history : Ascending(history[p])

\* The pair's snapshots that are at most the length of the window old.
Recent(p) == SelectSeq(history[p], LAMBDA sn : now - sn.timestamp <= WindowTicks)

\* C17: get_history(pair, max_points = N) returns at most N points, each one a
\* snapshot of the pair inside the window, in non-decreasing timestamp order.
C17_AtMostNPoints ==
    out.call = "get_history" =>
        LET N == out.value.max_points
            pts == out.value.points
            w == Recent(out.pair)
        IN  /\ N >= 0 => Len(pts) <= N
            /\ \A j \in 1..Len(pts) : \E i \in 1..Len(w) : pts[j] = HistoryPoint(w[i])
            /\ \A j \in 1..(Len(pts) - 1) :
                   fromisoformat(pts[j].timestamp) <= fromisoformat(pts[j + 1].timestamp)

\* What C18 says of a trend r computed from the in-window snapshots w; exact
\* tells whether change_percent is the quotient itself or the quotient
\* rounded to two decimals.
TrendAsStated(r, w, exact) ==
    LET n == Len(w)
        k == IF n \div 8 >= 1 THEN n \div 8 ELSE 1
        start == Median2([j \in 1..k |-> w[j].median_rate])
        end == Median2([j \in 1..k |-> w[n - k + j].median_rate])
    IN  IF n < 2 THEN r.direction = "neutral" /\ r.change_percent = 0
        ELSE IF start = 0 THEN r.change_percent = 0 /\ r.direction = "neutral"
        ELSE /\ IF exact THEN r.change_percent * start = (end - start) * 10000
                ELSE 2 * Abs(r.change_percent * start - (end - start) * 10000) <= start
             /\ r.direction = "up" <=> (end - start) * 100 > 2 * start
             /\ r.direction = "down" <=> (end - start) * 100 < (0 - 2) * start
             /\ r.direction \in {"up", "down", "neutral"}

\* C18: get_trend is neutral with 0% on fewer than two in-window snapshots;
\* otherwise change_percent = (end - start) / start * 100 (0 when start = 0)
\* over the medians of the first and last k = max(1, len // 8) medians, and
\* the direction is up above 2%, down below -2%, neutral otherwise.
C18_TrendExact ==
    out.call = "get_trend" =>
        TrendAsStated(out.value, Recent(out.pair), TRUE)

\* C18, amended: the same, with change_percent being that quotient rounded to
\* two decimals, and the direction decided on the quotient before rounding.
C18_TrendRounded ==
    out.call = "get_trend" =>
        TrendAsStated(out.value, Recent(out.pair), FALSE)

\* A rise from 100 to 110 over sixteen or more snapshots was reported as up, 10%.
C18_Witness ==
    /\ out.call = "get_trend"
    /\ out.value.data_points >= 16
    /\ out.value.start = 2 * 200 /\ out.value.end = 2 * 220
    /\ out.value.direction = "up" /\ out.value.change_percent = 1000

\* C19: with two or more in-window snapshots the sparkline has at most 30
\* elements, taken at strictly increasing positions of the history, the last
\* one being the median of the most recent in-window snapshot.
C19_SparklineEndsAtLast ==
    (out.call = "get_trend" /\ out.value.data_points >= 2) =>
        LET r == out.value
            w == Recent(out.pair)
        IN  /\ Len(r.sparkline) <= 30
            /\ Len(r.sparkline) = Len(r.indices)
            /\ \A j \in 1..Len(r.indices) :
                   /\ r.indices[j] \in 0..(Len(w) - 1)
                   /\ r.sparkline[j] = w[r.indices[j] + 1].median_rate
            /\ \A j \in 1..(Len(r.indices) - 1) : r.indices[j] < r.indices[j + 1]
            /\ r.sparkline[Len(r.sparkline)] = w[Len(w)].median_rate

\* A sparkline was sampled from more than 30 snapshots of distinct medians.
C19_Witness ==
    /\ out.call = "get_trend"
    /\ out.value.data_points > SPARKLINE_POINTS
    /\ Len(out.value.sparkline) = SPARKLINE_POINTS
    /\ out.value.sparkline[1] # out.value.sparkline[2]
    /\ out.value.sparkline[SPARKLINE_POINTS] = 2 * Len(history[out.pair])

\* C20: an on_response whose headers carry no positive Retry-After and no
\* triple with current >= limit and reset_s > 0 leaves block_until, and with
\* it `blocked`, as they were, whatever soft delay it schedules.
C20_SoftThrottleNeverBlocks ==
    [][\A t \in Threads :
         OnResponseStep(t)
         => LET ra == ParseInt(resp[t].headers.retry_after)
                rules == ParsedRules(resp[t].headers)
            IN  (/\ ~(ra.ok /\ ra.val > 0)
                 /\ \A i \in 1..Len(rules) :
                        ~(rules[i].current >= rules[i].limit /\ rules[i].reset_s > 0))
                => /\ block_until' = block_until
                   /\ (now' < block_until') <=> (now < block_until)]_vars

\* A soft delay is pending from a response with a rule at 80% of its limit,
\* and the Governor is not blocked.
C20_Witness ==
    /\ soft_delay_until > now
    /\ ~blocked
    /\ \E i \in 1..Len(last_rules) :
          /\ last_rules[i].current * 10 >= 8 * last_rules[i].limit
          /\ last_rules[i].current < last_rules[i].limit



\* C21: the soft delay an on_response schedules, counted from the time of
\* the call, is none (soft_delay_until = 0) or at least 0.2 s and at most 3 s,
\* whatever the triples of the response are.
C21_SoftDelayBounded ==
    [][\A t \in Threads :
         OnResponseStep(t)
         => \/ soft_delay_until' = 0
            \/ /\ soft_delay_until' - now >= SoftMinTicks
               /\ soft_delay_until' - now <= SoftMaxTicks]_vars

\* A soft delay of the full 3 s is pending from a triple whose 5% of the
\* reset time is more than 3 s.
C21_Witness ==
    /\ soft_delay_until = now + SoftMaxTicks
    /\ \E i \in 1..Len(last_rules) :
          (last_rules[i].reset_s * SoftFactorNum * TicksPerSecond) \div SoftFactorDen > SoftMaxTicks

\* st.ratio >= soft_ratio, as a comparison of integers
RatioAtLeastSoft(st) ==
    IF st.limit > 0 THEN st.current * SoftRatioDen >= SoftRatioNum * st.limit
    ELSE IF st.limit < 0 THEN st.current * SoftRatioDen <= SoftRatioNum * st.limit
    ELSE FALSE

\* clamp(reset_s * soft_sleep_factor, 0.2 s, 3 s), in ticks
ClampedSleep(st) ==
    Min(Max((st.reset_s * SoftFactorNum * TicksPerSecond) \div SoftFactorDen, SoftMinTicks),
        SoftMaxTicks)

\* The triples that take part in the soft throttle: at or over the soft
\* ratio and under the limit; with anyReset = FALSE only those that have
\* reset time left under a positive limit.
SoftTriples(rules, anyReset) ==
    {i \in 1..Len(rules) :
        /\ RatioAtLeastSoft(rules[i])
        /\ rules[i].current < rules[i].limit
        /\ anyReset \/ (rules[i].reset_s > 0 /\ rules[i].limit > 0)}

\* soft_delay_until as stated: the time of the call plus the largest clamped
\* sleep over the triples that take part, 0 (none) when no triple does.
SoftDelayAsStated(rules, t, anyReset) ==
    LET is == SoftTriples(rules, anyReset)
    IN  IF is = {} THEN 0
        ELSE t + (CHOOSE m \in {ClampedSleep(rules[i]) : i \in is} :
                     \A i \in is : ClampedSleep(rules[i]) <= m)

IsTriple(rawPart) ==
    LET pieces == Split(Strip(rawPart), ":")
    IN  /\ Len(pieces) = 3
        /\ \A i \in 1..3 : ParseInt(pieces[i]).ok

\* sep.join(parts)
RECURSIVE Join(_, _)
Join(parts, sep) ==
    IF parts = <<>> THEN <<>>
    ELSE IF Len(parts) = 1 THEN parts[1]
    ELSE parts[1] \o <<sep>> \o Join(Tail(parts), sep)

\* The headers without what on_response skips: each state header keeps only
\* its parts that are triples, and a Retry-After that is no integer is absent.
WithoutMalformed(h) ==
    [retry_after |-> IF ParseInt(h.retry_after).ok THEN h.retry_after ELSE <<>>,
     rules |-> h.rules,
     state |-> [r \in DOMAIN h.state |->
                  Join(SelectSeq(Split(h.state[r], ","), IsTriple), ",")]]

\* The Governor's three fields after on_response(h) at time t on a Governor
\* blocked until b.
GovernorAfter(h, t, b) ==
    LET rules == ParsedRules(h)
        soft_sleep == SoftSleep(rules, 0)
    IN  [block_until |-> HardBlock(rules, t, RetryAfterBlock(h, t, b)),
         soft_delay_until |-> IF soft_sleep > 0 THEN t + soft_sleep ELSE 0,
         last_rules |-> rules]

\* C28: on_response ends in the Governor state it would reach on the same
\* headers without their malformed parts (state-header parts that are not
\* three colon-separated integers, a Retry-After that is no integer), and the
\* caller goes on to the status checks of _post_exchange: nothing is raised.
C28_MalformedSkipped ==
    [][\A t \in Threads :
         OnResponseStep(t)
         => LET g == GovernorAfter(WithoutMalformed(resp[t].headers), now, block_until)
            IN  /\ block_until' = g.block_until
                /\ soft_delay_until' = g.soft_delay_until
                /\ last_rules' = g.last_rules
                /\ pc'[t] \in {"summarize", "backoff", "done"}]_vars

\* The Governor holds the two triples of a state header that also carried
\* the two-piece part "9:9" and an empty part, and their soft delay.
C28_Witness ==
    /\ last_rules = <<RuleState("Account", 4, 5, 8), RuleState("Account", 9, 10, 100)>>
    /\ soft_delay_until > now
    /\ WithoutMalformed(HSoft) # HSoft


\* C30: a call of get_history or get_trend, whatever the pair and
\* max_points, leaves every pair's snapshot sequence and the durable store
\* as they were.
C30_QueriesLeaveStoreAlone ==
    [][out'.call \in {"get_history", "get_trend"}
       => /\ history' = history
          /\ db_snapshots' = db_snapshots
          /\ db_cache' = db_cache]_vars

\* get_trend returned a sparkline whose last index was moved to the last
\* snapshot, from a history that also holds snapshots outside the window,
\* all of them with their rows in the durable store.
C30_Witness ==
    /\ out.call = "get_trend"
    /\ out.value.data_points > SPARKLINE_POINTS
    /\ out.value.indices[SPARKLINE_POINTS] # SampleIndex(SPARKLINE_POINTS - 1, out.value.data_points, SPARKLINE_POINTS, 0)
    /\ Len(history[out.pair]) > out.value.data_points
    /\ Len(db_snapshots) = Len(history[out.pair])


\* t takes the listings out of the response body in this step
SummarizeStep(t) == pc[t] = "summarize" /\ pc'[t] = "set"
\* t writes the cache entry and returns in this step
CacheSetStep(t) == pc[t] = "set" /\ pc'[t] = "done"

Sorted(ls) == \A i \in 1..(Len(ls) - 1) : ls[i] <= ls[i + 1]

\* C29: the listings taken from a successful response are its offers in
\* ascending order of rate, all of them up to 20, whatever top_n is; the
\* cache entry holds that whole list and the caller gets its first top_n;
\* and a fetch_listings_with_cache that finds the entry unexpired returns
\* its first min(top_n, stored count) listings without an upstream request.
C29_CacheHoldsOverFetch ==
    [][\A t \in Threads :
         /\ SummarizeStep(t)
            => LET offers == OfferRates(resp[t].body.result)
               IN  /\ Len(listings'[t]) = Min(CacheTopN, Len(offers))
                   /\ Sorted(listings'[t])
                   /\ \A i \in 1..Len(listings'[t]) : InSeq(listings'[t][i], offers)
                   /\ \A i \in 1..Len(offers) :
                        InSeq(offers[i], listings'[t]) \/ listings'[t][Len(listings'[t])] <= offers[i]
         /\ CacheSetStep(t)
            => /\ store'[pair[t]].data = listings[t]
               /\ result'[t].listings = SubSeq(listings[t], 1, Min(top_n[t], Len(listings[t])))
         /\ (LookupStep(t) /\ store[pair'[t]].present /\ now < store[pair'[t]].expires_at)
            => /\ result'[t].was_cached
               /\ Len(result'[t].listings) = Min(top_n'[t], Len(store[pair'[t]].data))
               /\ \A i \in 1..Len(result'[t].listings) :
                    result'[t].listings[i] = store[pair'[t]].data[i]
               /\ sent'[t] = 0
               /\ store' = store]_vars

\* A cache hit returned three listings out of an entry that holds twenty,
\* cut from a response with twenty-one offers.
C29_Witness ==
    \E t \in Threads :
        /\ pc[t] = "done" /\ result[t].was_cached
        /\ top_n[t] = 3 /\ Len(result[t].listings) = 3
        /\ Len(store[pair[t]].data) = CacheTopN

\* C27: when the write to the durable store fails, set returns with the entry
\* in the cache and add_snapshot returns with the snapshot appended to the
\* pair's history, the durable tables left as they were; a get or a
\* get_history that follows returns the entry or the snapshot.
C27_FailedWriteKeepsMemory ==
    /\ [][\A p \in Pairs :
            (SetStep(p) /\ ~out'.value.saved)
            => /\ db_cache' = db_cache
               /\ store'[p] = CacheEntry(out'.value.data, now + TTLTicks, out'.value.fetched_at)
               /\ CacheGet(store', now', p)
                      = [hit |-> TRUE, data |-> out'.value.data,
                         fetched_at |-> out'.value.fetched_at]]_vars
    /\ [][\A t \in Threads :
            (SnapAppendStep(t) /\ out'.value = "unsaved")
            => LET points == get_history(history'[pair[t]], now', -1, 0)
               IN  /\ db_snapshots' = db_snapshots
                   /\ history'[pair[t]] = Append(history[pair[t]], snap[t])
                   /\ points # <<>>
                   /\ points[Len(points)] = HistoryPoint(snap[t])]_vars
    /\ [][\A p \in HistPairs :
            (out.call = "none" /\ out'.call = "get_history" /\ out'.pair = p)
            => out'.value.points = get_history(history[p], now, -1, 0)]_vars

\* A get has returned an entry that no row of the durable store holds, and
\* the history holds a snapshot that the durable store lacks.
C27_Witness ==
    /\ out.call = "get" /\ out.value.hit
    /\ db_cache[out.pair] = NoRow
    /\ Len(history["a_b"]) > Len(db_snapshots)

\* C24: for every pair a trade route has processed, the status is
\* "rate_limited" exactly when the Governor was blocked at the start of the
\* pair's iteration, and then no fetch was called and no upstream request
\* issued; "error" exactly when it was not blocked and the fetch returned the
\* failure result after retries + 1 requests; "ok" otherwise; and no handler
\* has raised.
C24_StatusPerPair ==
    /\ route.raised = "none"
    /\ \A i \in 1..Len(route.results) :
          LET e == route.results[i]
          IN  /\ e.status \in {"rate_limited", "error", "ok"}
              /\ (e.status = "rate_limited") <=> e.blocked_at_call
              /\ e.status = "rate_limited" => (~e.fetched /\ e.requests = 0)
              /\ (e.status = "error")
                    <=> (~e.blocked_at_call /\ e.fetched /\ ~e.ok /\ e.requests = Retries + 1)

\* C25: a trade route calls add_snapshot for a pair only when the pair's
\* fetch returned listings with was_cached = FALSE, and a pair's history
\* changes only in such a step.
C25_SnapshotsOnlyFromFresh ==
    /\ [](\A i \in 1..Len(route.results) :
             route.results[i].add_snapshot
             => (~route.results[i].was_cached /\ route.results[i].listed))
    /\ [][\A p \in RoutePairs :
            history'[p] # history[p]
            => /\ pc[Caller] = "done" /\ pair[Caller] = p
               /\ ~result[Caller].was_cached
               /\ result[Caller].listings # <<>>]_vars

\* C26: when the consumer of a stream has disconnected by the time the loop
\* is at an iteration boundary, the stream ends there: the route goes on to
\* no fetch, and no upstream request is issued for a stream whose consumer
\* was gone at that boundary.
C26_DisconnectEndsStream ==
    [][/\ (IsStream(route.handler) /\ route.at = "loop" /\ ~route.connected)
          => route'.at = "ended"
       /\ (IsStream(route.handler) /\ route.at = "loop" /\ route'.at = "call")
          => route.connected]_vars


\* C31: within an attempt the order is fixed: the request is issued only by
\* a caller to whom wait_before_request has returned; a request that brings
\* a response (200, 429 or another status) is followed by on_response on
\* that response's headers, and only from on_response does the caller go on
\* to the outcome, the backoff or the next attempt; a request that fails in
\* transport goes to the outcome or the backoff with the Governor untouched;
\* and the Governor changes in on_response steps alone.
C31_AttemptOrder ==
    [][/\ \A t \in Threads :
            /\ (pc'[t] = "post" /\ pc[t] # "post")
               => /\ pc[t] = "wait"
                  /\ now >= Max(block_until, soft_delay_until)
            /\ sent'[t] > sent[t]
               => /\ pc[t] = "post"
                  /\ sent'[t] = sent[t] + 1
                  /\ \/ /\ pc'[t] = "on_response"
                        /\ resp'[t].kind = "response"
                        /\ resp'[t].status \in {200, 429, 500}
                        /\ UNCHANGED govVars
                     \/ /\ pc'[t] \in {"backoff", "done"}
                        /\ resp'[t] = NoResponse
                        /\ UNCHANGED govVars
            /\ (pc[t] = "on_response" /\ pc'[t] # "on_response")
               => /\ last_rules' = ParsedRules(resp[t].headers)
                  /\ block_until' >= block_until
                  /\ pc'[t] \in {"summarize", "backoff", "done"}
                  /\ (resp[t].status # 200) => pc'[t] \in {"backoff", "done"}
            /\ (pc'[t] = "summarize" /\ pc[t] # "summarize") => pc[t] = "on_response"
            /\ (pc'[t] = "backoff" /\ pc[t] # "backoff") => pc[t] \in {"on_response", "post"}
            /\ (pc'[t] = "wait" /\ pc[t] = "backoff") => sent'[t] = sent[t]
       /\ <<block_until, soft_delay_until, last_rules>>' # <<block_until, soft_delay_until, last_rules>>
          => \E t \in Threads : pc[t] = "on_response" /\ pc'[t] # "on_response"]_vars

\* The caller is in its backoff after a 429 whose headers on_response has
\* taken in: the Retry-After of the response blocks the Governor.
C31_Witness ==
    /\ pc[Caller] = "backoff"
    /\ sent[Caller] = 1
    /\ last_rules = ParsedRules(HRetry1)
    /\ last_rules # <<>>
    /\ block_until > now


\* C32: each on_response computes the soft delay anew from its own response:
\* with no parsed triple at or over the soft ratio (or no headers at all)
\* no soft delay is pending afterwards, whatever was scheduled before; else
\* soft_delay_until is 0 or the time of the call plus the clamped sleep of
\* one of this response's triples, so never beyond 3 s from the call.
C32_SoftDelayFromLatest ==
    [][\A t \in Threads :
         OnResponseStep(t)
         => LET rules == ParsedRules(resp[t].headers)
                near == {i \in 1..Len(rules) : RatioAtLeastSoft(rules[i])}
            IN  /\ near = {} => (soft_delay_until' = 0 /\ soft_remaining' = 0)
                /\ soft_delay_until' \in {0} \cup {now + ClampedSleep(rules[i]) : i \in near}
                /\ soft_delay_until' <= now + SoftMaxTicks]_vars

\* A caller still sleeps out a soft delay that a later response, one with
\* no rule near its limit, has discarded: the Governor was never blocked and
\* has no soft delay pending.
C32_Witness ==
    /\ \E t \in Threads : pc[t] = "sleep" /\ wake[t] > now
    /\ block_until = 0
    /\ soft_delay_until = 0
    /\ \E t \in Threads : pc[t] = "done"


\* The rules on_response consults: those the response lists, "Ip" and
\* "Account".
ConsultedRules(h) == {h.rules[i] : i \in 1..Len(h.rules)} \cup {"Ip", "Account"}

\* C34: right after an on_response, debug_state holds exactly the triples
\* parsed from the state headers of the rules that response consulted, in
\* their order, and nothing when the response carries no such header,
\* whatever it held before; and a call of debug_state returns that content
\* and leaves block_until, soft_delay_until and the triples as they were.
C34_DebugStateFromLatest ==
    [][/\ \A t \in Threads :
            OnResponseStep(t)
            => LET h == resp[t].headers
                   parsed == ParsedRules(h)
               IN  /\ debug_state' = [i \in 1..Len(parsed) |->
                                        <<parsed[i].name, parsed[i].current,
                                          parsed[i].limit, parsed[i].reset_s>>]
                   /\ \A i \in 1..Len(parsed) : parsed[i].name \in ConsultedRules(h)
                   /\ (\A r \in ConsultedRules(h) : StateHeader(h, r) = <<>>)
                      => debug_state' = <<>>
       /\ (out' # out /\ out'.call = "debug_state")
          => /\ out'.value.debug_state = debug_state
             /\ UNCHANGED <<now, block_until, soft_delay_until, last_rules>>]_vars

\* debug_state was read after one response and a later response has
\* replaced every triple: the Governor holds triples, none of which is among
\* those read before.
C34_Witness ==
    /\ out.call = "debug_state"
    /\ out.value.debug_state # <<>>
    /\ debug_state # <<>>
    /\ \A i \in 1..Len(out.value.debug_state), j \in 1..Len(debug_state) :
          out.value.debug_state[i] # debug_state[j]


\* C33: the Governor's operations exclude one another: at most one caller
\* is inside on_response; a step of on_response, the check of
\* wait_before_request and every status read (blocked, block_remaining,
\* soft_remaining, throttled_remaining, debug_state) happen only while no
\* other caller is inside on_response, so none of them sees the soft delay
\* and the last rules reset but not yet recomputed; the check decides on
\* max(block_until, soft_delay_until) and throttled_remaining is the larger
\* of the hard and the soft remaining time of that one state.
C33_OneLockPerOperation ==
    /\ [](Cardinality({t \in Threads : pc[t] \in LockedPcs}) <= 1)
    /\ [][/\ \A t \in Threads :
               /\ (pc'[t] # pc[t] /\ (pc[t] \in LockedPcs \/ pc'[t] \in LockedPcs))
                  => \A u \in Threads \ {t} : pc[u] \notin LockedPcs
               /\ (pc[t] = "wait" /\ pc'[t] # "wait")
                  => /\ \A u \in Threads : pc[u] \notin LockedPcs
                     /\ (pc'[t] = "post") <=> (now >= block_until /\ now >= soft_delay_until)
          /\ out' # out
             => /\ \A u \in Threads : pc[u] \notin LockedPcs
                /\ out'.call = "throttled_remaining"
                   => LET rem == out'.value.throttled_remaining
                      IN  \/ rem = block_until - now /\ rem >= soft_delay_until - now
                          \/ rem = soft_delay_until - now /\ rem >= block_until - now
                          \/ rem = 0 /\ block_until <= now /\ soft_delay_until <= now
                /\ out'.call = "blocked" => (out'.value.blocked <=> now < block_until)
                /\ out'.call = "debug_state" => out'.value.debug_state = debug_state]_vars

\* A caller is inside on_response, past the reset and before the rules are
\* recomputed, so the soft delay that throttled_remaining reported before is
\* gone for the moment, and the other caller stands at the check of
\* wait_before_request.
C33_Witness ==
    /\ \E t \in Threads, u \in Threads :
          /\ pc[t] = "or_rules" /\ resp[t].headers = HSoft
          /\ pc[u] = "wait"
    /\ soft_delay_until = 0
    /\ last_rules = <<>>
    /\ out.call = "throttled_remaining"
    /\ out.value.throttled_remaining > 0


\* C35: when a call of add_snapshot appends its snapshot to the pair's
\* history in memory, the durable store holds the row of that snapshot when
\* the call is over, whatever calls of add_snapshot and clear_all and
\* whatever restarts came before.
C35_AppendedIsStored ==
    [][\A t \in Threads :
         SnapAppendStep(t)
         => /\ history'[pair[t]] = Append(history[pair[t]], snap[t])
            /\ \E i \in 1..Len(db_snapshots') :
                  db_snapshots'[i] = SnapshotRow(pair[t], snap[t])]_vars


\* C36: a call of set, invalidate or clear_all that starts with a row in the
\* durable cache table for exactly the pairs that have an entry in memory
\* ends with the two in step again, so that they agree after any sequence
\* of these calls.
C36_RowIffEntry ==
    [][(/\ out.call = "none"
        /\ out'.call \in {"set", "invalidate", "clear_all"}
        /\ \A p \in CachePairs : db_cache[p].present <=> store[p].present)
       => \A p \in CachePairs : db_cache'[p].present <=> store'[p].present]_vars


\* C37: a get_trend over two or more snapshots in the window returns
\* lowest_median <= the median of the start window <= highest_median, and
\* the same for the median of the end window, whatever the length of the
\* history.
C37_MediansWithinRange ==
    out.call = "get_trend" /\ out.value.data_points >= 2
    => /\ out.value.lowest_median <= out.value.start
       /\ out.value.start <= out.value.highest_median
       /\ out.value.lowest_median <= out.value.end
       /\ out.value.end <= out.value.highest_median


\* t's fetch returns (None, False, None) in this step
FailureStep(t) == pc[t] # "done" /\ pc'[t] = "done" /\ result'[t] = Failure

\* C38 (as claimed): when a forced fetch of a pair has failed the cache holds
\* no entry for the pair, so that a lookup of the pair then misses; and no
\* step of a fetch_listings_with_cache that stores no listings changes an
\* entry.
C38_FailedForceNoEntry ==
    [][\A t \in Threads :
         /\ (FailureStep(t) /\ op[t] = "force")
            => /\ ~store'[pair[t]].present
               /\ ~CacheGet(store', now', pair[t]).hit
         /\ (op[t] = "with_cache" /\ pc'[t] # pc[t] /\ pc[t] # "set") => store' = store]_vars

\* C38 (amended): a forced fetch removes the pair's entry when it begins,
\* unexpired or not, and a fetch that fails, forced or not, stores nothing
\* in any of its steps: after a failed forced fetch the cache holds an entry
\* for the pair only if another caller's fetch stored it in the meantime.
C38_FailedFetchStoresNothing ==
    [][\A t \in Threads :
         /\ ForceStep(t)
            => /\ ~store'[pair'[t]].present
               /\ \A q \in Pairs \ {pair'[t]} : store'[q] = store[q]
         /\ (op[t] \in {"force", "with_cache"} /\ pc'[t] # pc[t] /\ pc[t] # "set")
            => store' = store
         /\ FailureStep(t)
            => /\ pc[t] \in {"post", "on_response"}
               /\ sent'[t] = Retries + 1
               /\ store' = store]_vars

\* A forced fetch has failed on its last attempt; the pair had an unexpired
\* entry when it was called and has none now.
C38_Witness ==
    \E t \in Threads :
        /\ op[t] = "force" /\ pc[t] = "done" /\ result[t] = Failure
        /\ hit_at_call[t]
        /\ ~store[pair[t]].present


\* C39: with fetch_listings_with_cache alone, a pair has at most one
\* successful upstream request per TTL window: a caller holds the data of a
\* successful request only while the pair has no unexpired entry and no
\* other caller holds such data for the pair, and no caller writes the
\* pair's entry while an unexpired one is there.
C39_OneFetchPerWindow ==
    /\ [](\A t \in Threads :
             pc[t] \in {"summarize", "set"}
             => /\ ~(store[pair[t]].present /\ now < store[pair[t]].expires_at)
                /\ \A u \in Threads \ {t} :
                      ~(pc[u] \in {"summarize", "set"} /\ pair[u] = pair[t]))
    /\ [][\A t \in Threads :
            (pc[t] = "set" /\ pc'[t] # "set")
            => ~(store[pair[t]].present /\ now < store[pair[t]].expires_at)]_vars


\* C40: a caller in wait_before_request eventually has it return, once no
\* response raises the block any further and the clock goes on; and the
\* check lets a caller through at once, with no sleep, when the Governor is
\* neither blocked nor soft-delayed, and sends it to sleep otherwise.
C40_WaitTerminates ==
    /\ \A t \in Threads : (pc[t] \in {"wait", "sleep"}) ~> (pc[t] = "post")
    /\ [][\A t \in Threads :
            (pc[t] = "wait" /\ pc'[t] # "wait")
            => IF now >= block_until /\ now >= soft_delay_until
               THEN pc'[t] = "post" /\ wake'[t] = wake[t]
               ELSE /\ pc'[t] = "sleep"
                    /\ wake'[t] > now
                    /\ wake'[t] <= now + SleepCapTicks]_vars

\* wait_before_request has returned to a caller that was waiting when
\* another caller's response raised the block: the block is over and no
\* soft delay is pending.
C40_Witness ==
    \E t \in Threads :
        /\ pc[t] = "post" /\ raised[t]
        /\ block_until > 0
        /\ now >= block_until /\ now >= soft_delay_until

====
